---------------------------- MODULE Spec2Model ----------------------------
(***************************************************************************)
(* A model of the device-composition engine of Dian                        *)
(* (dian/devices/devicebase.py, dian/devices/pvgen.py).                    *)
(*                                                                         *)
(* A device is a DeviceBase instance.  Its dynamic attribute bag           *)
(* (self.__dict__) holds the per-element quantities, which are arrays of   *)
(* sympy expressions.  The equations of the shipped devices are linear     *)
(* ('v - v0', '-p0', '-q', 'a - a0', '-p'), so a sympy expression is       *)
(* modelled in sympy's own canonical form for sums: a set of               *)
(* <<atom, coefficient>> terms with non-zero coefficients, where an atom   *)
(* is a symbol (identified by its name, as in sympy), the unit "1" for     *)
(* the numeric part, or an array literal.                                  *)
(*                                                                         *)
(* Specifications:                                                         *)
(*   Spec          the stage methods of a bus and a generator device,      *)
(*                 called in any order, and the assembly of the residual   *)
(*   SpecBalance   the stage methods of a bus, a generator and a slack     *)
(*                 generator device, stage by stage in the order of the    *)
(*                 pipeline, and the assembly of the residual              *)
(*   SpecAddr      get_var_address and get_algeb_ext on three devices      *)
(*   SpecExpand    _subs_all_vectorized and _subs_all_singleton            *)
(*   SpecCompute   _compute_variable                                       *)
(*   SpecElements  create_n_default_elements, add_element, idx2int         *)
(*   SpecMeta      metadata_check                                          *)
(*   SpecImport    get_algeb_ext through key and class-name imports        *)
(*   SpecSymbols   _init_data and _init_equation                           *)
(*   SpecParams    _compute_param_int                                      *)
(*   SpecShared    get_algeb_ext and later changes of the target           *)
(*   SpecRemat     delayed_symbol_sub and delayed_symbol_sub_all           *)
(***************************************************************************)
EXTENDS Integers, Sequences, FiniteSets, TLC

VARIABLES
    decl,                          \* per device: the declarations made in __init__
    idx,                           \* per device: self.idx
    int,                           \* per device: self._int
    attrs,                         \* per device: run-time entries of self.__dict__
    symbol_singleton,              \* per device: self._symbol_singleton
    dae_address,                   \* per device: self._dae_address
    gcall_int_symbolic_singleton,  \* per device: self._gcall_int_symbolic_singleton
    gcall_ext_symbolic_singleton,  \* per device: self._gcall_ext_symbolic_singleton
    gcall_int_symbolic,            \* per device: self._gcall_int_symbolic
    gcall_ext_symbolic,            \* per device: self._gcall_ext_symbolic
    dae,                           \* system.dae: the address counters and the residual g
    ret,                           \* what the last call returned or raised
    calls                          \* per device: the calls counted so far

vars == <<decl, idx, int, attrs, symbol_singleton, dae_address,
          gcall_int_symbolic_singleton, gcall_ext_symbolic_singleton,
          gcall_int_symbolic, gcall_ext_symbolic, dae, ret, calls>>

(***************************************************************************)
(* Bounds of the model.                                                    *)
(***************************************************************************)
MaxN == 2

(***************************************************************************)
(* Small helpers on sequences and functions.                               *)
(***************************************************************************)
Range(s) == {s[k] : k \in DOMAIN s}

Min(S) == CHOOSE m \in S : \A k \in S : m <= k

Put(f, k, v) == [x \in DOMAIN f \cup {k} |-> IF x = k THEN v ELSE f[x]]

Update(f, g) == [x \in DOMAIN f \cup DOMAIN g |-> IF x \in DOMAIN g THEN g[x] ELSE f[x]]

Perms(S) == {p \in [1..Cardinality(S) -> S] : \A a \in S : \E k \in DOMAIN p : p[k] = a}

Empty == [x \in {} |-> {}]

Range0(n) == [k \in 1..n |-> k - 1]

(***************************************************************************)
(* sympy expressions.                                                      *)
(***************************************************************************)
ONE == "1"

Sym(n) == [name |-> n, arr |-> <<>>]

ArrayAtom(a) == [name |-> "", arr |-> a]

Integer(k) == IF k = 0 THEN {} ELSE {<<Sym(ONE), k>>}

symbols(n) == {<<Sym(n), 1>>}

Coef(e, a) == IF \E p \in e : p[1] = a THEN (CHOOSE p \in e : p[1] = a)[2] ELSE 0

AtomsOf(e) == {p[1] : p \in e}

Add(e1, e2) ==
    {<<a, Coef(e1, a) + Coef(e2, a)>> :
        a \in {x \in AtomsOf(e1) \cup AtomsOf(e2) : Coef(e1, x) + Coef(e2, x) # 0}}

Mul(k, e) == IF k = 0 THEN {} ELSE {<<p[1], k * p[2]>> : p \in e}

Neg(e) == Mul(-1, e)

RECURSIVE free_symbols(_)
free_symbols(e) ==
    UNION {IF p[1].name = ""
             THEN UNION {free_symbols(p[1].arr[k]) : k \in DOMAIN p[1].arr}
             ELSE IF p[1].name = ONE THEN {} ELSE {p[1].name} : p \in e}

\* Basic._subs(old, new): every occurrence of the symbol old becomes new,
\* also inside array literals.
RECURSIVE subs_terms(_, _, _)
subs_terms(T, old, new) ==
    IF T = {} THEN {}
    ELSE LET p == CHOOSE q \in T : TRUE
             one == IF p[1].name = old THEN Mul(p[2], new)
                    ELSE IF p[1].name = ""
                      THEN {<<ArrayAtom([k \in DOMAIN p[1].arr |->
                                            subs_terms(p[1].arr[k], old, new)]), p[2]>>}
                      ELSE {p}
         IN  Add(one, subs_terms(T \ {p}, old, new))

\* Basic.xreplace(reps): one pass, every symbol in DOMAIN reps replaced at once.
RECURSIVE xreplace(_, _)
xreplace(T, reps) ==
    IF T = {} THEN {}
    ELSE LET p == CHOOSE q \in T : TRUE
             one == IF p[1].name \in DOMAIN reps THEN Mul(p[2], reps[p[1].name])
                    ELSE IF p[1].name = ""
                      THEN {<<ArrayAtom([k \in DOMAIN p[1].arr |->
                                            xreplace(p[1].arr[k], reps)]), p[2]>>}
                      ELSE {p}
         IN  Add(one, xreplace(T \ {p}, reps))

\* expr.subs(sequence): the pairs <<old, new>> are applied one after the other.
RECURSIVE subs_sequential(_, _)
subs_sequential(e, sequence) ==
    IF sequence = <<>> THEN e
    ELSE subs_sequential(subs_terms(e, Head(sequence)[1], Head(sequence)[2]), Tail(sequence))

Dummy(k) == "Dummy_" \o ToString(k)

\* expr.subs(sequence, simultaneous=True): every old symbol is first replaced by
\* a fresh Dummy, then the Dummies are replaced by the new values in one pass.
subs_simultaneous(e, sequence) ==
    LET toDummy == [k \in DOMAIN sequence |-> <<sequence[k][1], symbols(Dummy(k))>>]
        reps == [d \in {Dummy(k) : k \in DOMAIN sequence} |->
                    sequence[CHOOSE k \in DOMAIN sequence : Dummy(k) = d][2]]
    IN  xreplace(subs_sequential(e, toDummy), reps)


(***************************************************************************)
(* Python values held in the attribute bag: a list, a numpy array, a sympy *)
(* Array (mutable or not) or a single sympy expression.  A rank-0 Array    *)
(* holds one expression and has length 1.                                  *)
(***************************************************************************)
Value(ctype, rank, arr, e) == [ctype |-> ctype, rank |-> rank, arr |-> arr, e |-> e]

List(a) == Value("list", 1, a, {})

Array(a) == Value("Array", 1, a, {})

MutableDenseNDimArray(a) == Value("MutableDenseNDimArray", 1, a, {})

ndarray(ints) == Value("ndarray", 1, [k \in DOMAIN ints |-> Integer(ints[k])], {})

Expr(e) == Value("Expr", 0, <<>>, e)

None == Value("None", 0, <<>>, {})

Sized(v) == v.ctype \in {"list", "Array", "MutableDenseNDimArray", "ndarray"}

len(v) == IF v.rank = 0 THEN 1 ELSE Len(v.arr)

Items(v) == IF v.rank = 0 THEN <<v.e>> ELSE v.arr

\* sympify(value, strict=True), as Basic.subs applies it to a replacement
\* value: a sympy expression or a sympy Array converts, a Python list or a
\* numpy array does not.
Sympifies(v) == v.ctype \notin {"list", "ndarray"}

\* A sympy value as an operand of a sympy expression.
AsExpr(v) == IF v.ctype = "Expr" THEN v.e ELSE {<<ArrayAtom(Items(v)), 1>>}

\* Basic.subs drops every pair whose replacement value does not convert;
\* the symbol of such a pair stays in the expression.
Substitutable(bag, order) ==
    LET kept == SelectSeq(order, LAMBDA sym : Sympifies(bag[sym]))
    IN  [k \in DOMAIN kept |-> <<kept[k], AsExpr(bag[kept[k]])>>]

\* The Python object a sympy expression evaluates to.
FromExpr(e) ==
    IF Cardinality(e) = 1 /\ \E p \in e : p[1].name = "" /\ p[2] = 1
      THEN Array((CHOOSE p \in e : TRUE)[1].arr)
      ELSE Expr(e)

(***************************************************************************)
(* The outcome of a call: a returned value, or the exception raised with   *)
(* the text of its arguments.                                              *)
(***************************************************************************)
Return(v) == [ok |-> TRUE, exc |-> "", args |-> <<>>, val |-> v]

Raise(exc, args) == [ok |-> FALSE, exc |-> exc, args |-> args, val |-> None]

\* return_as(ret) / return_type(value): list(...) or sympy.Array(...).
ApplyType(type, v) ==
    CASE type = "None" -> Return(v)
      [] type = "list" -> IF Sized(v) THEN Return(List(Items(v)))
                          ELSE Raise("TypeError", <<"not iterable">>)
      [] type = "Array" -> IF Sized(v) THEN Return(Value("Array", v.rank, v.arr, v.e))
                           ELSE Return(Value("Array", 0, <<>>, v.e))
      [] OTHER -> Raise("TypeError", <<"not callable">>)

(***************************************************************************)
(* sympify(eq): the expressions of the equation strings used by the        *)
(* shipped devices and in the properties below.                            *)
(***************************************************************************)
sympify(eq) ==
    CASE eq = "0"       -> Integer(0)
      [] eq = "1"       -> Integer(1)
      [] eq = "v - v0"  -> Add(symbols("v"), Neg(symbols("v0")))
      [] eq = "-p0"     -> Neg(symbols("p0"))
      [] eq = "-q"      -> Neg(symbols("q"))
      [] eq = "a - a0"  -> Add(symbols("a"), Neg(symbols("a0")))
      [] eq = "-p"      -> Neg(symbols("p"))
      [] eq = "v0"      -> symbols("v0")
      [] eq = "v + q"   -> Add(symbols("v"), symbols("q"))
      [] eq = "v - zz"  -> Add(symbols("v"), Neg(symbols("zz")))
      [] eq = "v - idx" -> Add(symbols("v"), Neg(symbols("idx")))
      [] eq = "2*v0 + 1" -> Add(Mul(2, symbols("v0")), Integer(1))
      [] eq = "Sn + Vn" -> Add(symbols("Sn"), symbols("Vn"))

non_commutative_sympify(eq) == sympify(eq)

(***************************************************************************)
(* DeviceBase._subs_all_vectorized and DeviceBase._subs_all_singleton on   *)
(* an attribute bag.  free_syms is a Python set: order is the order in     *)
(* which this run happens to enumerate it.                                 *)
(***************************************************************************)
\* The first symbol of the enumeration whose lookup or len() raises.
FirstBad(bag, order, needLen) ==
    LET bad == {k \in DOMAIN order : order[k] \notin DOMAIN bag
                                     \/ (needLen /\ ~Sized(bag[order[k]]))}
    IN  IF bad = {} THEN 0 ELSE Min(bad)

LookupError(bag, sym) ==
    IF sym \notin DOMAIN bag THEN Raise("KeyError", <<sym>>)
    ELSE Raise("TypeError", <<"no len()">>)

subs_all_vectorized(bag, equation_singleton, order, return_as) ==
    LET bad == FirstBad(bag, order, TRUE)
    IN  IF bad # 0 THEN LookupError(bag, order[bad])
        ELSE IF order = <<>> THEN Raise("ValueError", <<"min() arg is an empty sequence">>)
        ELSE
          LET n_element == Min({len(bag[order[k]]) : k \in DOMAIN order})
              kept == SelectSeq(order, LAMBDA s : len(bag[s]) # 0)
              sym_list(i) == [k \in DOMAIN kept |-> <<kept[k], Items(bag[kept[k]])[i]>>]
              out == [i \in 1..n_element |-> subs_sequential(equation_singleton, sym_list(i))]
          IN  IF return_as \in {"None", "list"} THEN Return(List(out))
              ELSE ApplyType(return_as, List(out))

\* A singleton expansion that applies the substitutions one after the other.
subs_all_singleton_sequential(bag, equation_singleton, order, return_as) ==
    LET bad == FirstBad(bag, order, FALSE)
    IN  IF bad # 0 THEN LookupError(bag, order[bad])
        ELSE
          LET sym_list == Substitutable(bag, order)
              out == FromExpr(subs_sequential(equation_singleton, sym_list))
          IN  ApplyType(return_as, out)

subs_all_singleton(bag, equation_singleton, order, return_as) ==
    LET bad == FirstBad(bag, order, FALSE)
    IN  IF bad # 0 THEN LookupError(bag, order[bad])
        ELSE
          LET sym_list == Substitutable(bag, order)
              out == FromExpr(subs_simultaneous(equation_singleton, sym_list))
          IN  ApplyType(return_as, out)

(***************************************************************************)
(* Device classes: the declarations DeviceBase.__init__ and the subclass   *)
(* constructors make.  An OrderedDict is a sequence of <<key, value...>>   *)
(* tuples.  An equation declaration of _var_int_computed is kept with its  *)
(* Python shape: whether it is a list, and its items.                      *)
(***************************************************************************)
DeviceBase(name) ==
    [name |-> name,
     param_int |-> <<"name", "u">>,
     param_int_non_computational |-> <<"name">>,
     param_int_computed |-> <<>>,
     param_int_custom |-> <<>>,
     foreign_keys |-> <<>>,
     algeb_int |-> <<>>,
     algeb_intf |-> <<>>,
     algeb_ext |-> <<>>,
     var_int_computed |-> <<>>,
     var_int_custom |-> <<>>,
     state_int |-> <<>>,
     gcall_int |-> <<>>,
     gcall_ext |-> <<>>,
     special_flags |-> [no_algeb_ext_check |-> FALSE,
                        state_group_by_element |-> TRUE,
                        algeb_group_by_element |-> TRUE]]

\* PV.__init__ after super().__init__: the declarations are added to the
\* members DeviceBase.__init__ created.  '_param_int_mandatory' is read, and
\* DeviceBase.__init__ creates no such member.
PVInit(self) ==
    IF "param_int_mandatory" \notin DOMAIN self
      THEN Raise("AttributeError",
                 <<"'" \o self.name \o "' object has no attribute '_param_int_mandatory'">>)
      ELSE Return([self EXCEPT
               !.param_int = @ \o <<"bus", "p0", "v0", "Sn", "Vn", "vmax", "vmin", "qmax", "qmin">>,
               !.param_int_non_computational = @ \o <<"bus">>,
               !.param_int_mandatory = @ \o <<"bus">>,
               !.foreign_keys = <<<<"bus", "Bus">>>>,
               !.algeb_ext = <<<<"a", "bus", "a">>, <<"v", "bus", "v">>>>,
               !.algeb_int = <<"q">>,
               !.gcall_int = <<<<"q", "v - v0">>>>,
               !.gcall_ext = <<<<"a", "-p0">>, <<"v", "-q">>>>])

\* Slack.__init__ after PV.__init__ returned.
SlackInit(self) ==
    [self EXCEPT
        !.param_int = SelectSeq(@, LAMBDA x : x # "p0") \o <<"a0">>,
        !.algeb_int = @ \o <<"p">>,
        !.gcall_int = @ \o <<<<"p", "a - a0">>>>,
        !.gcall_ext = <<<<"a", "-p">>, <<"v", "-q">>>>]

\* PV(system) and Slack(system): the outcome of the constructor.
PV == PVInit(DeviceBase("PV"))

Slack ==
    LET r == PVInit(DeviceBase("Slack"))
    IN  IF r.ok THEN Return(SlackInit(r.val)) ELSE r

\* A DeviceBase object that has the member '_param_int_mandatory', empty.
WithParamIntMandatory(self) == self @@ [param_int_mandatory |-> <<>>]

\* The generator declarations, on an object that has the member
\* PV.__init__ reads.
PVDevice == PVInit(WithParamIntMandatory(DeviceBase("PV"))).val

SlackDevice == SlackInit(PVInit(WithParamIntMandatory(DeviceBase("Slack"))).val)

\* The bus device: two interface variables, the voltage angle and magnitude.
Bus ==
    [DeviceBase("Bus") EXCEPT
        !.param_int = @ \o <<"Vn">>,
        !.algeb_int = <<"a", "v">>,
        !.algeb_intf = <<"a", "v">>]

\* str.lower(), on the names that occur: class names and quantity names.
\* Every other name that occurs has no upper-case letter.
lower(name) ==
    CASE name = "Bus" -> "bus" [] name = "PV" -> "pv" [] name = "Slack" -> "slack"
      [] name = "Mon" -> "mon" [] name = "Dyn" -> "dyn" [] name = "Dev" -> "dev"
      [] name = "Sn" -> "sn" [] name = "Vn" -> "vn"
      [] OTHER -> name

Keys(od) == [k \in DOMAIN od |-> od[k][1]]

HasKey(od, key) == \E k \in DOMAIN od : od[k][1] = key

Get(od, key) == od[CHOOSE k \in DOMAIN od : od[k][1] = key]

(***************************************************************************)
(* The state of the devices.                                               *)
(***************************************************************************)
Devices == DOMAIN decl

\* DeviceBase.n
n(d) == Len(idx[d])

\* self.__dict__ as the expansion reads it: the quantities created at run
\* time and the instance attribute idx.
Bag(d) == Put(attrs[d], "idx", List([k \in DOMAIN idx[d] |-> Integer(idx[d][k])]))

IntsOf(v) == [k \in DOMAIN v.arr |-> Coef(v.arr[k], Sym(ONE))]

Call(op, d, result) == [op |-> op, dev |-> d] @@ result

False == Value("bool", 0, <<>>, {})

\* A lookup that answers row 0 for an idx it does not hold.
idx2int_default_row(d, idxs) ==
    Return(ndarray([k \in DOMAIN idxs |->
                       IF idxs[k] \in DOMAIN int[d] THEN int[d][idxs[k]] ELSE 0]))

\* DeviceBase.idx2int
idx2int(d, idxs) ==
    LET missing == {k \in DOMAIN idxs : idxs[k] \notin DOMAIN int[d]}
    IN  IF missing # {} THEN Raise("KeyError", <<ToString(idxs[Min(missing)])>>)
        ELSE Return(ndarray([k \in DOMAIN idxs |-> int[d][idxs[k]]]))

\* The inverse lookup: the idx of each row.
int2idx(d, rows) == [k \in DOMAIN rows |-> idx[d][rows[k] + 1]]

\* smp.symbols('<Class>_<item>_0:<n>') as a MutableDenseNDimArray
placeholders(cls, item, count) ==
    MutableDenseNDimArray([k \in 1..count |-> symbols(cls \o "_" \o item \o "_" \o ToString(k - 1))])

\* The names _init_data creates a symbol and an array for.
init_data_items(c) ==
    (Range(c.param_int) \ Range(c.param_int_non_computational))
    \cup Range(Keys(c.param_int_computed)) \cup Range(c.param_int_custom)
    \cup Range(c.algeb_int) \cup Range(Keys(c.var_int_computed)) \cup Range(c.state_int)

\* DeviceBase._init_data: the new attribute bag, the new _symbol_singleton and
\* the value returned.
init_data(d) ==
    IF n(d) = 0
      THEN [attrs |-> attrs[d], symbol_singleton |-> symbol_singleton[d], ret |-> Return(False)]
      ELSE LET items == init_data_items(decl[d])
           IN  [attrs |-> Update(attrs[d],
                                 [item \in items |-> placeholders(decl[d].name, item, n(d))]),
                symbol_singleton |-> Update(symbol_singleton[d], [item \in items |-> item]),
                ret |-> Return(None)]

(***************************************************************************)
(* Cross-device reference resolution: DeviceBase.get_algeb_ext with        *)
(* _get_int_of_element and get_list_of_symbols_from_ext.  One declared     *)
(* import <<dest, fkey, var_name>> is resolved on the device state st      *)
(* = [attrs, dae_address, symbol_singleton, ret]; an exception leaves      *)
(* what was stored before it.                                              *)
(***************************************************************************)
\* DeviceBase._get_int_of_element / the device-name branch of get_algeb_ext:
\* the referenced device and the rows of its elements.
get_int_of_element(d, fkey, st) ==
    IF fkey \in Range(decl[d].param_int)
      THEN IF ~HasKey(decl[d].foreign_keys, fkey) THEN [dev |-> "", r |-> Raise("KeyError", <<fkey>>)]
           ELSE LET dev == Get(decl[d].foreign_keys, fkey)[2]
                IN  IF fkey \notin DOMAIN st.attrs THEN [dev |-> dev, r |-> Raise("KeyError", <<fkey>>)]
                    ELSE IF lower(dev) \notin Devices
                      THEN [dev |-> dev, r |-> Raise("KeyError", <<lower(dev)>>)]
                    ELSE [dev |-> dev, r |-> idx2int(lower(dev), IntsOf(st.attrs[fkey]))]
      ELSE IF lower(fkey) \notin Devices THEN [dev |-> fkey, r |-> Raise("KeyError", <<lower(fkey)>>)]
           ELSE [dev |-> fkey, r |-> idx2int(lower(fkey), idx[lower(fkey)])]

\* DeviceBase.get_list_of_symbols_from_ext
get_list_of_symbols_from_ext(dev, var_name, int_idx) ==
    IF var_name \notin DOMAIN Bag(lower(dev)) THEN Raise("KeyError", <<var_name>>)
    ELSE Return(List([k \in DOMAIN int_idx |-> Items(Bag(lower(dev))[var_name])[int_idx[k] + 1]]))

\* An import that takes the foreign-key value itself for the row.
import_one_by_idx(d, entry, st) ==
    LET dest == entry[1]
        var_name == entry[3]
        found == get_int_of_element(d, entry[2], st)
        dev_ref == lower(found.dev)
        int_keys == IntsOf(found.r.val)
        keys == IntsOf(st.attrs[entry[2]])
    IN  IF ~found.r.ok THEN [st EXCEPT !.ret = found.r]
        ELSE IF var_name \notin DOMAIN dae_address[dev_ref]
          THEN [st EXCEPT !.ret = Raise("KeyError", <<var_name>>)]
        ELSE IF int_keys = <<>>
          THEN [st EXCEPT !.ret = Raise("IndexError", <<"arrays used as indices must be of integer type">>)]
        ELSE
          LET st1 == [st EXCEPT !.dae_address =
                         Put(@, dest, [k \in DOMAIN int_keys |->
                                          dae_address[dev_ref][var_name][keys[k] + 1]])]
              algeb_symbol_list == get_list_of_symbols_from_ext(found.dev, var_name, int_keys)
          IN  IF ~algeb_symbol_list.ok THEN [st1 EXCEPT !.ret = algeb_symbol_list]
              ELSE [st1 EXCEPT !.attrs = Put(@, dest, Array(algeb_symbol_list.val.arr)),
                               !.symbol_singleton = Put(@, dest, var_name),
                               !.ret = Return(None)]

import_one(d, entry, st) ==
    LET dest == entry[1]
        var_name == entry[3]
        found == get_int_of_element(d, entry[2], st)
        dev_ref == lower(found.dev)
        int_keys == IntsOf(found.r.val)
    IN  IF ~found.r.ok THEN [st EXCEPT !.ret = found.r]
        ELSE IF var_name \notin DOMAIN dae_address[dev_ref]
          THEN [st EXCEPT !.ret = Raise("KeyError", <<var_name>>)]
        \* numpy: an empty index array is a float array and cannot index
        ELSE IF int_keys = <<>>
          THEN [st EXCEPT !.ret = Raise("IndexError", <<"arrays used as indices must be of integer type">>)]
        ELSE
          LET st1 == [st EXCEPT !.dae_address =
                         Put(@, dest, [k \in DOMAIN int_keys |->
                                          dae_address[dev_ref][var_name][int_keys[k] + 1]])]
              algeb_symbol_list == get_list_of_symbols_from_ext(found.dev, var_name, int_keys)
          IN  IF ~algeb_symbol_list.ok THEN [st1 EXCEPT !.ret = algeb_symbol_list]
              ELSE [st1 EXCEPT !.attrs = Put(@, dest, Array(algeb_symbol_list.val.arr)),
                               !.symbol_singleton = Put(@, dest, var_name),
                               !.ret = Return(None)]

RECURSIVE get_algeb_ext_loop(_, _, _)
get_algeb_ext_loop(d, todo, st) ==
    IF todo = <<>> THEN st
    ELSE LET st1 == import_one(d, Head(todo), st)
         IN  IF st1.ret.ok THEN get_algeb_ext_loop(d, Tail(todo), st1) ELSE st1

get_algeb_ext(d) ==
    get_algeb_ext_loop(d, decl[d].algeb_ext,
                       [attrs |-> attrs[d], dae_address |-> dae_address[d],
                        symbol_singleton |-> symbol_singleton[d], ret |-> Return(None)])

(***************************************************************************)
(* Address allocation.  system.dae.new_idx hands out the addresses of one  *)
(* segment ('x' state, 'y' algebraic): a variable that already has         *)
(* addresses keeps them, the others get the next free addresses, laid out  *)
(* element by element or variable by variable.                             *)
(***************************************************************************)
new_idx(D, d, var_type, var_name, group_by_element) ==
    LET fresh == SelectSeq(var_name, LAMBDA v : <<d, v>> \notin DOMAIN D.alloc)
        nv == Len(fresh)
        base == D[var_type]
        addr(k, i) == IF group_by_element THEN base + (i - 1) * nv + (k - 1)
                      ELSE base + (k - 1) * n(d) + (i - 1)
        alloc == Update(D.alloc, [key \in {<<d, fresh[k]>> : k \in DOMAIN fresh} |->
                     LET k == CHOOSE j \in DOMAIN fresh : fresh[j] = key[2]
                     IN  [i \in 1..n(d) |-> addr(k, i)]])
    IN  [dae |-> [D EXCEPT ![var_type] = base + n(d) * nv, !.alloc = alloc],
         ret |-> [v \in Range(var_name) |-> alloc[<<d, v>>]]]

addr_attrs(r) == [a \in {"_" \o key \o "_addr" : key \in DOMAIN r} |->
                     ndarray(r[CHOOSE key \in DOMAIN r : "_" \o key \o "_addr" = a])]

\* An allocation in which every variable of a kind receives the addresses of
\* the first variable of that kind.
get_var_address_overlapping(d) ==
    LET x == new_idx(dae, d, "x", decl[d].state_int,
                     decl[d].special_flags.state_group_by_element)
        y == new_idx(x.dae, d, "y", decl[d].algeb_int,
                     decl[d].special_flags.algeb_group_by_element)
        xr == [v \in DOMAIN x.ret |-> x.ret[decl[d].state_int[1]]]
        yr == [v \in DOMAIN y.ret |-> y.ret[decl[d].algeb_int[1]]]
    IN  [dae |-> y.dae,
         attrs |-> Update(Update(attrs[d], addr_attrs(xr)), addr_attrs(yr)),
         dae_address |-> Update(Update(dae_address[d], xr), yr),
         ret |-> Return(None)]

\* DeviceBase.get_var_address
get_var_address(d) ==
    LET x == new_idx(dae, d, "x", decl[d].state_int,
                     decl[d].special_flags.state_group_by_element)
        y == new_idx(x.dae, d, "y", decl[d].algeb_int,
                     decl[d].special_flags.algeb_group_by_element)
    IN  [dae |-> y.dae,
         attrs |-> Update(Update(attrs[d], addr_attrs(x.ret)), addr_attrs(y.ret)),
         dae_address |-> Update(Update(dae_address[d], x.ret), y.ret),
         ret |-> Return(None)]

(***************************************************************************)
(* Equation templates and their expansion per element.                     *)
(***************************************************************************)
\* DeviceBase.make_gcall_ext_symbolic / make_gcall_int_symbolic
make_gcall_symbolic(gcall, singleton) ==
    Update(singleton, [var \in Range(Keys(gcall)) |-> sympify(Get(gcall, var)[2])])

\* The order in which a run enumerates a set of symbols.
OrderOf(S, rev) ==
    LET p == CHOOSE q \in Perms(S) : TRUE
    IN  IF rev THEN [k \in DOMAIN p |-> p[Len(p) + 1 - k]] ELSE p

\* DeviceBase.delayed_symbol_sub: st = [out, ret]; todo are the keys of the
\* dictionary of singletons still to visit.
RECURSIVE delayed_symbol_sub_loop(_, _, _, _, _, _, _, _)
delayed_symbol_sub_loop(bag, singleton_dict, todo, st, subs_type, output_type, update, rev) ==
    IF todo = <<>> THEN st
    ELSE LET var == Head(todo)
             eq == singleton_dict[var]
             order == OrderOf(free_symbols(eq), rev)
             r == IF subs_type = "vectorized"
                    THEN subs_all_vectorized(bag, eq, order, output_type)
                    ELSE subs_all_singleton(bag, eq, order, output_type)
             rest == Tail(todo)
         IN  IF ~update /\ var \in DOMAIN st.out
               THEN delayed_symbol_sub_loop(bag, singleton_dict, rest, st,
                                            subs_type, output_type, update, rev)
             ELSE IF ~r.ok THEN [st EXCEPT !.ret = r]
             ELSE delayed_symbol_sub_loop(bag, singleton_dict, rest,
                                          [st EXCEPT !.out = Put(@, var, r.val)],
                                          subs_type, output_type, update, rev)

delayed_symbol_sub(d, singleton_dict, keys, out, subs_type, output_type, update, rev) ==
    IF subs_type \notin {"vectorized", "singleton"}
      THEN [out |-> out, ret |-> Raise("AssertionError", <<>>)]
      ELSE delayed_symbol_sub_loop(Bag(d), singleton_dict,
                                   SelectSeq(keys, LAMBDA k : k \in DOMAIN singleton_dict),
                                   [out |-> out, ret |-> Return(None)],
                                   subs_type, output_type, update, rev)

\* DeviceBase.delayed_symbol_sub_all: the external equations, then the internal.
delayed_symbol_sub_all(d, rev) ==
    LET ext == delayed_symbol_sub(d, gcall_ext_symbolic_singleton[d], Keys(decl[d].gcall_ext),
                                  gcall_ext_symbolic[d], "vectorized", "Array", FALSE, rev)
        int_ == delayed_symbol_sub(d, gcall_int_symbolic_singleton[d], Keys(decl[d].gcall_int),
                                   gcall_int_symbolic[d], "vectorized", "Array", FALSE, rev)
    IN  IF ~ext.ret.ok
          THEN [ext |-> ext.out, int |-> gcall_int_symbolic[d], ret |-> ext.ret]
          ELSE [ext |-> ext.out, int |-> int_.out, ret |-> int_.ret]

(***************************************************************************)
(* DeviceBase._check_number_of_algeb_equations / metadata_check            *)
(***************************************************************************)
\* A check that is content with either of the two counts.
check_number_of_algeb_equations_either(c) ==
    IF (c.special_flags.no_algeb_ext_check \/ Len(c.algeb_ext) = Len(c.gcall_ext))
       \/ Len(c.algeb_int) - Len(c.algeb_intf) <= Len(c.gcall_int)
      THEN Return(None)
    ELSE Raise("AssertionError", <<c.name \o " Number of _algeb_ext does not equal _gcall_ext">>)

check_number_of_algeb_equations(c) ==
    IF c.special_flags.no_algeb_ext_check = FALSE /\ Len(c.algeb_ext) # Len(c.gcall_ext)
      THEN Raise("AssertionError", <<c.name \o " Number of _algeb_ext does not equal _gcall_ext">>)
    ELSE IF ~(Len(c.algeb_int) - Len(c.algeb_intf) <= Len(c.gcall_int))
      THEN Raise("AssertionError", <<c.name \o " Too few gcall_int equations">>)
    ELSE Return(None)

metadata_check(c) == check_number_of_algeb_equations(c)

(***************************************************************************)
(* DeviceBase._compute_param_int and DeviceBase._compute_variable: one     *)
(* pass over the declarations in declaration order; st = [attrs, ret].     *)
(***************************************************************************)
BagOf(d, a) == Put(a, "idx", List([k \in DOMAIN idx[d] |-> Integer(idx[d][k])]))

\* A pass that expands every derived parameter over the values the device
\* had when the pass began.
RECURSIVE compute_param_int_frozen_loop(_, _, _, _)
compute_param_int_frozen_loop(d, todo, st, rev) ==
    IF todo = <<>> THEN st
    ELSE LET var == Head(todo)[1]
             equation_singleton == sympify(Head(todo)[2])
             r == subs_all_vectorized(BagOf(d, attrs[d]), equation_singleton,
                                      OrderOf(free_symbols(equation_singleton), rev), "list")
         IN  IF ~r.ok THEN [st EXCEPT !.ret = r]
             ELSE compute_param_int_frozen_loop(d, Tail(todo),
                                                [st EXCEPT !.attrs = Put(@, var, r.val)], rev)

RECURSIVE compute_param_int_loop(_, _, _, _)
compute_param_int_loop(d, todo, st, rev) ==
    IF todo = <<>> THEN st
    ELSE LET var == Head(todo)[1]
             equation_singleton == sympify(Head(todo)[2])
             r == subs_all_vectorized(BagOf(d, st.attrs), equation_singleton,
                                      OrderOf(free_symbols(equation_singleton), rev), "list")
         IN  IF ~r.ok THEN [st EXCEPT !.ret = r]
             ELSE compute_param_int_loop(d, Tail(todo), [st EXCEPT !.attrs = Put(@, var, r.val)], rev)

compute_param_int(d, rev) ==
    compute_param_int_loop(d, decl[d].param_int_computed,
                           [attrs |-> attrs[d], ret |-> Return(None)], rev)

\* A computation that expands every mode it does not know as a singleton.
compute_one_variable_any_mode(d, var, eq, st, rev) ==
    LET shapeOk == eq.islist /\ Len(eq.items) \in {1, 2, 3}
        compute_type == IF Len(eq.items) >= 2 THEN eq.items[2] ELSE "vectorized"
        return_type == IF Len(eq.items) = 3 THEN eq.items[3] ELSE "None"
        equation_singleton == non_commutative_sympify(eq.items[1])
        order == OrderOf(free_symbols(equation_singleton), rev)
        r == IF compute_type = "vectorized"
               THEN subs_all_vectorized(BagOf(d, st.attrs), equation_singleton, order, "Array")
               ELSE subs_all_singleton(BagOf(d, st.attrs), equation_singleton, order, "None")
        typed == ApplyType(return_type, r.val)
    IN  IF ~shapeOk THEN [st EXCEPT !.ret = Raise("NotImplementedError", <<>>)]
        ELSE IF ~r.ok THEN [st EXCEPT !.ret = r]
        ELSE IF return_type = "None" THEN [st EXCEPT !.attrs = Put(@, var, r.val)]
        ELSE IF ~typed.ok THEN [st EXCEPT !.attrs = Put(@, var, r.val), !.ret = typed]
        ELSE [st EXCEPT !.attrs = Put(@, var, typed.val)]

\* One declaration var: eq of _var_int_computed.
compute_one_variable(d, var, eq, st, rev) ==
    LET shapeOk == eq.islist /\ Len(eq.items) \in {1, 2, 3}
        compute_type == IF Len(eq.items) >= 2 THEN eq.items[2] ELSE "vectorized"
        return_type == IF Len(eq.items) = 3 THEN eq.items[3] ELSE "None"
        equation_singleton == non_commutative_sympify(eq.items[1])
        order == OrderOf(free_symbols(equation_singleton), rev)
        r == IF compute_type = "vectorized"
               THEN subs_all_vectorized(BagOf(d, st.attrs), equation_singleton, order, "Array")
               ELSE subs_all_singleton(BagOf(d, st.attrs), equation_singleton, order, "None")
        typed == ApplyType(return_type, r.val)
    IN  IF ~shapeOk THEN [st EXCEPT !.ret = Raise("NotImplementedError", <<>>)]
        ELSE IF compute_type \notin {"vectorized", "singleton"}
          THEN [st EXCEPT !.ret = Raise("NotImplementedError", <<>>)]
        ELSE IF ~r.ok THEN [st EXCEPT !.ret = r]
        ELSE IF return_type = "None" THEN [st EXCEPT !.attrs = Put(@, var, r.val)]
        ELSE IF ~typed.ok THEN [st EXCEPT !.attrs = Put(@, var, r.val), !.ret = typed]
        ELSE [st EXCEPT !.attrs = Put(@, var, typed.val)]

RECURSIVE compute_variable_loop(_, _, _, _)
compute_variable_loop(d, todo, st, rev) ==
    IF todo = <<>> THEN st
    ELSE LET st1 == compute_one_variable(d, Head(todo)[1], Head(todo)[2], st, rev)
         IN  IF st1.ret.ok THEN compute_variable_loop(d, Tail(todo), st1, rev) ELSE st1

compute_variable(d, rev) ==
    compute_variable_loop(d, decl[d].var_int_computed,
                          [attrs |-> attrs[d], ret |-> Return(None)], rev)

(***************************************************************************)
(* Element creation.                                                       *)
(***************************************************************************)
\* A bulk creation that numbers the rows from 1.
create_n_default_elements_from_one(count) ==
    [idx |-> Range0(count), int |-> [i \in Range(Range0(count)) |-> i + 1]]

\* DeviceBase.create_n_default_elements: the new idx and _int
create_n_default_elements(count) ==
    [idx |-> Range0(count), int |-> [i \in Range(Range0(count)) |-> i]]

\* add_element(idx, **params): the next free row for a new idx; the values of
\* the foreign-key parameters are appended to the arrays of those parameters.
add_element(d, i, fkeys) ==
    IF i \in Range(idx[d]) THEN [idx |-> idx[d], int |-> int[d], attrs |-> attrs[d],
                                 ret |-> Raise("DuplicateIdx", <<ToString(i)>>)]
    ELSE [idx |-> Append(idx[d], i),
          int |-> Put(int[d], i, n(d)),
          attrs |-> Update(attrs[d],
                       [k \in DOMAIN fkeys |->
                           List((IF k \in DOMAIN attrs[d] THEN attrs[d][k].arr ELSE <<>>)
                                \o <<Integer(fkeys[k])>>)]),
          ret |-> Return(Expr(Integer(n(d))))]

(***************************************************************************)
(* Assembly of the residual: system.dae.initialize_xyfg_empty,             *)
(* system.collect_algeb_int_equations, system.collect_algeb_ext_equations. *)
(* g has one entry per algebraic address; every materialized equation is   *)
(* added to the entry at its address.                                      *)
(***************************************************************************)
\* The materialized equations of one dictionary of device d with their
\* addresses, <<address, equation>>, in dictionary order then row order.
RECURSIVE equations_of(_, _, _)
equations_of(d, symbolic, keys) ==
    IF keys = <<>> THEN <<>>
    ELSE [i \in 1..len(symbolic[Head(keys)]) |->
             <<dae_address[d][Head(keys)][i], Items(symbolic[Head(keys)])[i]>>]
         \o equations_of(d, symbolic, Tail(keys))

RECURSIVE collect(_, _)
collect(devs, kind) ==
    IF devs = <<>> THEN <<>>
    ELSE LET d == Head(devs)
         IN  (IF kind = "int"
                THEN equations_of(d, gcall_int_symbolic[d], Keys(decl[d].gcall_int))
                ELSE equations_of(d, gcall_ext_symbolic[d], Keys(decl[d].gcall_ext)))
             \o collect(Tail(devs), kind)

RECURSIVE overlay(_, _)
overlay(g, todo) ==
    IF todo = <<>> THEN g
    ELSE overlay([g EXCEPT ![Head(todo)[1] + 1] = Add(@, Head(todo)[2])], Tail(todo))

\* devs is the order in which the devices are visited.
assemble(devs) ==
    overlay(overlay([a \in 1..dae.y |-> Integer(0)], collect(devs, "int")), collect(devs, "ext"))

\* Every device has materialized all its equations and holds their addresses.
Materialized(d) ==
    /\ DOMAIN gcall_int_symbolic[d] = Range(Keys(decl[d].gcall_int))
    /\ DOMAIN gcall_ext_symbolic[d] = Range(Keys(decl[d].gcall_ext))
    /\ \A var \in DOMAIN gcall_int_symbolic[d] \cup DOMAIN gcall_ext_symbolic[d] :
          var \in DOMAIN dae_address[d]
    /\ \A var \in DOMAIN gcall_int_symbolic[d] :
          len(gcall_int_symbolic[d][var]) = Len(dae_address[d][var])
    /\ \A var \in DOMAIN gcall_ext_symbolic[d] :
          len(gcall_ext_symbolic[d][var]) = Len(dae_address[d][var])

(***************************************************************************)
(* The pipeline: the devices of a system with their elements added, and    *)
(* the stage methods of every device called in any order.                  *)
(***************************************************************************)
NoDae == [x |-> 0, y |-> 0, alloc |-> Empty, g |-> <<>>]

BadIdx == 99

MaxBus == 2

MaxPV == 2

\* Buses are added with descending idx, so that idx and row differ.
BusIdx(count) == [k \in 1..count |-> count - k]

\* The bus of each PV element: an existing bus or one that does not exist.
PVBus(count) ==
    {s \in UNION {[1..m -> (0..count - 1) \cup {BadIdx}] : m \in 0..MaxPV} :
        \A k \in DOMAIN s : k > 1 => s[k - 1] <= s[k]}

Blank(devs) == [d \in devs |-> Empty]

InitPipeline ==
    \E nb \in 0..MaxBus : \E fk \in PVBus(nb) : \E byElement \in BOOLEAN :
        /\ decl = [d \in {"bus", "pv"} |->
                     IF d = "bus"
                       THEN [Bus EXCEPT !.special_flags.algeb_group_by_element = byElement]
                       ELSE PVDevice]
        /\ idx = [d \in {"bus", "pv"} |-> IF d = "bus" THEN BusIdx(nb) ELSE Range0(Len(fk))]
        /\ int = [d \in {"bus", "pv"} |->
                    IF d = "bus" THEN [i \in Range(BusIdx(nb)) |-> nb - 1 - i]
                    ELSE [i \in Range(Range0(Len(fk))) |-> i]]
        /\ attrs = [d \in {"bus", "pv"} |->
                      IF d = "bus" THEN Empty
                      ELSE [p \in {"bus"} |-> List([k \in DOMAIN fk |-> Integer(fk[k])])]]
        /\ symbol_singleton = Blank({"bus", "pv"})
        /\ dae_address = Blank({"bus", "pv"})
        /\ gcall_int_symbolic_singleton = Blank({"bus", "pv"})
        /\ gcall_ext_symbolic_singleton = Blank({"bus", "pv"})
        /\ gcall_int_symbolic = Blank({"bus", "pv"})
        /\ gcall_ext_symbolic = Blank({"bus", "pv"})
        /\ dae = NoDae
        /\ ret = Return(None)
        /\ calls = [d \in {"bus", "pv"} |-> 0]

\* What a stage method leaves in ret: the value it returns (None, or False
\* from _init_data on a device without element), or the exception with the call.
Outcome(op, d, r) == IF r.ok THEN r ELSE Call(op, d, r)

InitDataEffect(d) ==
    LET r == init_data(d)
    IN  /\ attrs' = [attrs EXCEPT ![d] = r.attrs]
        /\ symbol_singleton' = [symbol_singleton EXCEPT ![d] = r.symbol_singleton]
        /\ ret' = Outcome("_init_data", d, r.ret)
        /\ UNCHANGED <<decl, idx, int, dae_address, gcall_int_symbolic_singleton,
                       gcall_ext_symbolic_singleton, gcall_int_symbolic, gcall_ext_symbolic, dae>>

InitData(d) == InitDataEffect(d) /\ UNCHANGED calls

GetVarAddressEffect(d) ==
    LET r == get_var_address(d)
    IN  /\ attrs' = [attrs EXCEPT ![d] = r.attrs]
        /\ dae_address' = [dae_address EXCEPT ![d] = r.dae_address]
        /\ dae' = r.dae
        /\ ret' = Outcome("get_var_address", d, r.ret)
        /\ UNCHANGED <<decl, idx, int, symbol_singleton, gcall_int_symbolic_singleton,
                       gcall_ext_symbolic_singleton, gcall_int_symbolic, gcall_ext_symbolic>>

GetVarAddress(d) == GetVarAddressEffect(d) /\ UNCHANGED calls

GetAlgebExtEffect(d) ==
    LET r == get_algeb_ext(d)
    IN  /\ attrs' = [attrs EXCEPT ![d] = r.attrs]
        /\ dae_address' = [dae_address EXCEPT ![d] = r.dae_address]
        /\ symbol_singleton' = [symbol_singleton EXCEPT ![d] = r.symbol_singleton]
        /\ ret' = Outcome("get_algeb_ext", d, r.ret)
        /\ UNCHANGED <<decl, idx, int, gcall_int_symbolic_singleton,
                       gcall_ext_symbolic_singleton, gcall_int_symbolic, gcall_ext_symbolic, dae>>

GetAlgebExt(d) == GetAlgebExtEffect(d) /\ UNCHANGED calls

MakeGcallIntSymbolicEffect(d) ==
    /\ gcall_int_symbolic_singleton' =
          [gcall_int_symbolic_singleton EXCEPT
              ![d] = make_gcall_symbolic(decl[d].gcall_int, @)]
    /\ ret' = Return(None)
    /\ UNCHANGED <<decl, idx, int, attrs, symbol_singleton, dae_address,
                   gcall_ext_symbolic_singleton, gcall_int_symbolic, gcall_ext_symbolic, dae>>

MakeGcallIntSymbolic(d) == MakeGcallIntSymbolicEffect(d) /\ UNCHANGED calls

MakeGcallExtSymbolicEffect(d) ==
    /\ gcall_ext_symbolic_singleton' =
          [gcall_ext_symbolic_singleton EXCEPT
              ![d] = make_gcall_symbolic(decl[d].gcall_ext, @)]
    /\ ret' = Return(None)
    /\ UNCHANGED <<decl, idx, int, attrs, symbol_singleton, dae_address,
                   gcall_int_symbolic_singleton, gcall_int_symbolic, gcall_ext_symbolic, dae>>

MakeGcallExtSymbolic(d) == MakeGcallExtSymbolicEffect(d) /\ UNCHANGED calls

DelayedSymbolSubAllEffect(d) ==
    \E rev \in BOOLEAN :
        LET r == delayed_symbol_sub_all(d, rev)
        IN  /\ gcall_ext_symbolic' = [gcall_ext_symbolic EXCEPT ![d] = r.ext]
            /\ gcall_int_symbolic' = [gcall_int_symbolic EXCEPT ![d] = r.int]
            /\ ret' = Outcome("delayed_symbol_sub_all", d, r.ret)
            /\ UNCHANGED <<decl, idx, int, attrs, symbol_singleton, dae_address,
                           gcall_int_symbolic_singleton, gcall_ext_symbolic_singleton, dae>>

DelayedSymbolSubAll(d) == DelayedSymbolSubAllEffect(d) /\ UNCHANGED calls

Assemble ==
    /\ \A d \in Devices : Materialized(d)
    /\ \E devs \in Perms(Devices) :
          dae' = [dae EXCEPT !.g = assemble(devs)]
    /\ ret' = Return(None)
    /\ UNCHANGED <<calls, decl, idx, int, attrs, symbol_singleton, dae_address,
                   gcall_int_symbolic_singleton, gcall_ext_symbolic_singleton,
                   gcall_int_symbolic, gcall_ext_symbolic>>

Next ==
    \/ \E d \in Devices : InitData(d)
    \/ \E d \in Devices : GetVarAddress(d)
    \/ \E d \in Devices : GetAlgebExt(d)
    \/ \E d \in Devices : MakeGcallIntSymbolic(d)
    \/ \E d \in Devices : MakeGcallExtSymbolic(d)
    \/ \E d \in Devices : DelayedSymbolSubAll(d)
    \/ Assemble

Spec == InitPipeline /\ [][Next]_vars

(***************************************************************************)
(* Helpers of the properties.                                              *)
(***************************************************************************)
RECURSIVE SumOver(_, _)
SumOver(S, f) ==
    IF S = {} THEN 0 ELSE LET x == CHOOSE y \in S : TRUE IN f[x] + SumOver(S \ {x}, f)

\* The imports of device d that go through a foreign-key parameter.
KeyImports(d) == {k \in DOMAIN decl[d].algeb_ext :
                     /\ decl[d].algeb_ext[k][2] \in Range(decl[d].param_int)
                     /\ HasKey(decl[d].foreign_keys, decl[d].algeb_ext[k][2])
                     /\ decl[d].algeb_ext[k][2] \in DOMAIN attrs[d]}

Target(d, k) == lower(Get(decl[d].foreign_keys, decl[d].algeb_ext[k][2])[2])

KeyValues(d, k) == IntsOf(attrs[d][decl[d].algeb_ext[k][2]])

\* The positions of the foreign-key values that name no element of the target.
Unknown(d, k) == {j \in DOMAIN KeyValues(d, k) : KeyValues(d, k)[j] \notin Range(idx[Target(d, k)])}

\* The first declared import of d that holds an unknown foreign-key value.
FirstUnknown(d) ==
    IF \E k \in KeyImports(d) : Unknown(d, k) # {}
      THEN Min({k \in KeyImports(d) : Unknown(d, k) # {}}) ELSE 0

FirstUnknownValue(d) ==
    LET k == FirstUnknown(d) IN ToString(KeyValues(d, k)[Min(Unknown(d, k))])

NotImported(d, dest) ==
    /\ dest \notin DOMAIN attrs[d]
    /\ dest \notin DOMAIN dae_address[d]
    /\ dest \notin DOMAIN symbol_singleton[d]

\* get_algeb_ext on a device whose first declared import holds an unknown
\* foreign-key value raises an error with the given arguments and stores
\* nothing for any import.
UnknownIdxFails(d, args) ==
    (GetAlgebExt(d) /\ FirstUnknown(d) = 1) =>
        /\ ~ret'.ok /\ ret'.op = "get_algeb_ext" /\ ret'.dev = d
        /\ ret'.exc = "KeyError" /\ ret'.args = args
        /\ \A k \in DOMAIN decl[d].algeb_ext :
              LET dest == decl[d].algeb_ext[k][1]
              IN  /\ dest \notin DOMAIN attrs'[d]
                  /\ dest \notin DOMAIN dae_address'[d]
                  /\ dest \notin DOMAIN symbol_singleton'[d]

\* idx2int on any list with an idx that the device does not hold raises KeyError
\* naming the first such idx.
Idx2IntRejectsUnknown ==
    \A d \in Devices : \A i \in (0..MaxBus) \cup {BadIdx} : \A j \in (0..MaxBus) \cup {BadIdx} :
        /\ i \notin Range(idx[d]) => idx2int(d, <<i>>) = Raise("KeyError", <<ToString(i)>>)
        /\ (i \in Range(idx[d]) /\ j \notin Range(idx[d]))
              => idx2int(d, <<i, j>>) = Raise("KeyError", <<ToString(j)>>)

(***************************************************************************)
(* C2 (as amended): idx2int raises KeyError for an idx absent from the     *)
(* device's idx-to-int mapping, and get_algeb_ext of a device that holds a *)
(* foreign-key value naming no element of the referenced device raises     *)
(* that KeyError, which names the value (not the key); no default row is   *)
(* substituted and no imported symbol or address is stored.                *)
(***************************************************************************)
C2_UnknownIdxRaises ==
    /\ []Idx2IntRejectsUnknown
    /\ [][\A d \in Devices : UnknownIdxFails(d, <<FirstUnknownValue(d)>>)]_vars

\* C2 as claimed: the error names the key and the value.
C2_ErrorNamesKeyAndValue ==
    [][\A d \in Devices :
          UnknownIdxFails(d, <<decl[d].algeb_ext[1][2], FirstUnknownValue(d)>>)]_vars

\* A generator on bus 99 has been refused although the bus device has
\* elements, addresses and symbols.
C2_Witness ==
    /\ ~ret.ok /\ ret.op = "get_algeb_ext" /\ ret.dev = "pv"
    /\ ret.exc = "KeyError" /\ ret.args = <<"99">>
    /\ n("bus") > 0 /\ "a" \in DOMAIN dae_address["bus"] /\ "a" \in DOMAIN attrs["bus"]
    /\ NotImported("pv", "a") /\ NotImported("pv", "v")

(***************************************************************************)
(* The pipeline on a bus device, a generator device and a slack generator  *)
(* device: several generators may sit on one bus, and the slack generator  *)
(* on the same bus or on another.  The bus device either declares no       *)
(* equation of its own or declares one for each of the variables the       *)
(* generators import.  The driver calls each stage method of DeviceBase on *)
(* every device in turn, stage after stage, and assembles at the end.      *)
(* tests/pjm5bus.py lists the stages in this order, but under names and    *)
(* with arguments that DeviceBase does not have (init_symbols, init_data,  *)
(* delayed_symbol_sub_all(subs_param_value=True), ...): run as shipped it  *)
(* ends in AttributeError at its first stage call.                         *)
(***************************************************************************)
\* A bus class that declares an equation for each of its own variables.
BusWithEquations ==
    [Bus EXCEPT !.param_int = @ \o <<"a0", "v0">>,
                !.gcall_int = <<<<"a", "a - a0">>, <<"v", "v - v0">>>>]

\* The bus of the slack generator: the system has one slack element or none.
SlackBus(count) == {<<>>} \cup {<<b>> : b \in 0..count - 1}

InitBalance ==
    \E nb \in 1..MaxBus : \E fk \in PVBus(nb) : \E fs \in SlackBus(nb) :
    \E own \in BOOLEAN :
        LET D == {"bus", "pv", "slack"}
            key == [d \in D |-> CASE d = "pv" -> fk [] d = "slack" -> fs [] OTHER -> <<>>]
        IN  /\ decl = [d \in D |->
                         CASE d = "bus" -> IF own THEN BusWithEquations ELSE Bus
                           [] d = "pv" -> PVDevice
                           [] OTHER -> SlackDevice]
            /\ idx = [d \in D |-> IF d = "bus" THEN BusIdx(nb) ELSE Range0(Len(key[d]))]
            /\ int = [d \in D |->
                        IF d = "bus" THEN [i \in Range(BusIdx(nb)) |-> nb - 1 - i]
                        ELSE [i \in Range(Range0(Len(key[d]))) |-> i]]
            /\ attrs = [d \in D |->
                          IF d = "bus" THEN Empty
                          ELSE [p \in {"bus"} |->
                                   List([k \in DOMAIN key[d] |-> Integer(key[d][k])])]]
            /\ symbol_singleton = Blank(D)
            /\ dae_address = Blank(D)
            /\ gcall_int_symbolic_singleton = Blank(D)
            /\ gcall_ext_symbolic_singleton = Blank(D)
            /\ gcall_int_symbolic = Blank(D)
            /\ gcall_ext_symbolic = Blank(D)
            /\ dae = NoDae
            /\ ret = Return(None)
            /\ calls = [d \in D |-> 0]

\* The stage methods of DeviceBase that act on these devices, in the order
\* of the pipeline; each stage is called on every device in turn.
Stages == <<"_init_data", "get_var_address", "get_algeb_ext", "make_gcall_int_symbolic",
            "make_gcall_ext_symbolic", "delayed_symbol_sub_all">>

DeviceOrder == <<"bus", "pv", "slack">>

\* The number of stage calls made so far.
StageCalls == SumOver(Devices, calls)

\* The driver has reached the call of the stage on the device (an exception
\* of an earlier call ends the run), and makes it.
InTurn(d, stage) ==
    /\ ret.ok
    /\ StageCalls < Len(Stages) * Len(DeviceOrder)
    /\ Stages[(StageCalls \div Len(DeviceOrder)) + 1] = stage
    /\ DeviceOrder[(StageCalls % Len(DeviceOrder)) + 1] = d
    /\ calls' = [calls EXCEPT ![d] = @ + 1]

\* The assembly, after the last stage; the devices are visited in any order.
AssembleLast ==
    /\ ret.ok
    /\ StageCalls = Len(Stages) * Len(DeviceOrder)
    /\ Assemble

NextBalance ==
    \/ \E d \in Devices : InTurn(d, "_init_data") /\ InitDataEffect(d)
    \/ \E d \in Devices : InTurn(d, "get_var_address") /\ GetVarAddressEffect(d)
    \/ \E d \in Devices : InTurn(d, "get_algeb_ext") /\ GetAlgebExtEffect(d)
    \/ \E d \in Devices : InTurn(d, "make_gcall_int_symbolic") /\ MakeGcallIntSymbolicEffect(d)
    \/ \E d \in Devices : InTurn(d, "make_gcall_ext_symbolic") /\ MakeGcallExtSymbolicEffect(d)
    \/ \E d \in Devices : InTurn(d, "delayed_symbol_sub_all") /\ DelayedSymbolSubAllEffect(d)
    \/ AssembleLast

SpecBalance == InitBalance /\ [][NextBalance]_vars

\* <<device, import number, element>> of every equation that device d declares
\* for a variable it imports through a foreign key.
ExtContributions ==
    UNION {UNION {{<<d, k, i>> : i \in 1..n(d)} :
                     k \in {j \in KeyImports(d) : HasKey(decl[d].gcall_ext, decl[d].algeb_ext[j][1])}} :
              d \in Devices}

\* <<device, variable, element>> of every equation of a device's own variable.
IntContributions ==
    UNION {UNION {{<<d, var, i>> : i \in 1..n(d)} :
                     var \in Range(Keys(decl[d].gcall_int)) \cap Range(decl[d].algeb_int)} :
              d \in Devices}

\* The address an import resolves to: the foreign-key value of the element
\* names an element of the target, whose own address of the variable it is.
ResolvedAddress(c) ==
    LET t == Target(c[1], c[2])
        row == int[t][KeyValues(c[1], c[2])[c[3]]]
    IN  dae_address[t][decl[c[1]].algeb_ext[c[2]][3]][row + 1]

RECURSIVE SumExt(_)
SumExt(S) ==
    IF S = {} THEN Integer(0)
    ELSE LET c == CHOOSE x \in S : TRUE
         IN  Add(Items(gcall_ext_symbolic[c[1]][decl[c[1]].algeb_ext[c[2]][1]])[c[3]],
                 SumExt(S \ {c}))

RECURSIVE SumInt(_)
SumInt(S) ==
    IF S = {} THEN Integer(0)
    ELSE LET c == CHOOSE x \in S : TRUE
         IN  Add(Items(gcall_int_symbolic[c[1]][c[2]])[c[3]], SumInt(S \ {c}))

ExpectedResidual(address) ==
    Add(SumInt({c \in IntContributions : dae_address[c[1]][c[2]][c[3]] = address}),
        SumExt({c \in ExtContributions : ResolvedAddress(c) = address}))

OwnAlgebraicCount == [d \in Devices |-> n(d) * Len(decl[d].algeb_int)]

(***************************************************************************)
(* C6: in the assembled residual, the entry at the address of variable v   *)
(* of element e is the sum of e's own equation for v (if any) and of the   *)
(* equations of every element of every device that imports v of e through  *)
(* a foreign key; the residual has exactly the addresses of the devices'   *)
(* own algebraic variables, so that importing creates none.                *)
(***************************************************************************)
C6_ContributionsAdd ==
    dae.g # <<>> =>
        /\ Len(dae.g) = SumOver(Devices, OwnAlgebraicCount)
        /\ \A address \in DOMAIN dae.g : dae.g[address] = ExpectedResidual(address - 1)

\* Two generators and the slack generator on the same bus, which declares an
\* equation of its own for 'a': the residual at that bus's 'a' address is the
\* bus's equation plus the three injections, and the other bus's 'a' address
\* holds that bus's equation alone.
C6_Witness ==
    /\ dae.g # <<>>
    /\ n("bus") = 2 /\ HasKey(decl["bus"].gcall_int, "a")
    /\ IntsOf(attrs["pv"]["bus"]) = <<1, 1>> /\ IntsOf(attrs["slack"]["bus"]) = <<1>>
    /\ dae.g[dae_address["bus"]["a"][1] + 1]
          = Add(Add(Add(symbols("Bus_a_0"), Neg(symbols("Bus_a0_0"))),
                    Add(Neg(symbols("PV_p0_0")), Neg(symbols("PV_p0_1")))),
                Neg(symbols("Slack_p_0")))
    /\ dae.g[dae_address["bus"]["a"][2] + 1]
          = Add(symbols("Bus_a_1"), Neg(symbols("Bus_a0_1")))

\* Generators on a bus that declares no equation: the residual at the bus's
\* 'a' address is the sum of the injections.
C6_WitnessNoOwnEquation ==
    /\ dae.g # <<>>
    /\ n("bus") = 2 /\ decl["bus"].gcall_int = <<>>
    /\ IntsOf(attrs["pv"]["bus"]) = <<1, 1>> /\ IntsOf(attrs["slack"]["bus"]) = <<0>>
    /\ dae.g[dae_address["bus"]["a"][1] + 1]
          = Add(Neg(symbols("PV_p0_0")), Neg(symbols("PV_p0_1")))
    /\ dae.g[dae_address["bus"]["a"][2] + 1] = Neg(symbols("Slack_p_0"))

(***************************************************************************)
(* Address allocation on its own: a bus device, a generator device that    *)
(* imports from it, and a device with state variables, each with any       *)
(* number of elements; get_var_address and get_algeb_ext are called in any *)
(* order, get_var_address up to MaxCalls times per device.                 *)
(***************************************************************************)
MaxCalls == 2

\* A DeviceBase subclass that declares state variables.
Dyn(byElement) ==
    [DeviceBase("Dyn") EXCEPT !.state_int = <<"delta", "omega">>,
                              !.algeb_int = <<"p">>,
                              !.special_flags.state_group_by_element = byElement,
                              !.special_flags.algeb_group_by_element = byElement]

InitAddr ==
    \E nb \in 0..MaxN : \E np \in 0..MaxN : \E nd \in 0..MaxN : \E byElement \in BOOLEAN :
        LET D == {"bus", "pv", "dyn"}
            count == [d \in D |-> CASE d = "bus" -> nb [] d = "pv" -> np [] OTHER -> nd]
            elements == [d \in D |-> create_n_default_elements(count[d])]
        IN  /\ decl = [d \in D |-> CASE d = "bus" -> Bus [] d = "pv" -> PVDevice
                                     [] OTHER -> Dyn(byElement)]
            /\ idx = [d \in D |-> elements[d].idx]
            /\ int = [d \in D |-> elements[d].int]
            /\ attrs = [d \in D |->
                          IF d = "pv"
                            THEN [p \in {"bus"} |->
                                     List([k \in 1..np |-> Integer(IF nb > 0 THEN nb - 1 ELSE BadIdx)])]
                            ELSE Empty]
            /\ symbol_singleton = Blank(D)
            /\ dae_address = Blank(D)
            /\ gcall_int_symbolic_singleton = Blank(D)
            /\ gcall_ext_symbolic_singleton = Blank(D)
            /\ gcall_int_symbolic = Blank(D)
            /\ gcall_ext_symbolic = Blank(D)
            /\ dae = NoDae
            /\ ret = Return(None)
            /\ calls = [d \in D |-> 0]

AllocateAddresses(d) ==
    /\ calls[d] < MaxCalls
    /\ LET r == get_var_address(d)
       IN  /\ attrs' = [attrs EXCEPT ![d] = r.attrs]
           /\ dae_address' = [dae_address EXCEPT ![d] = r.dae_address]
           /\ dae' = r.dae
           /\ ret' = Outcome("get_var_address", d, r.ret)
    /\ calls' = [calls EXCEPT ![d] = @ + 1]
    /\ UNCHANGED <<decl, idx, int, symbol_singleton, gcall_int_symbolic_singleton,
                   gcall_ext_symbolic_singleton, gcall_int_symbolic, gcall_ext_symbolic>>

NextAddr ==
    \/ \E d \in Devices : AllocateAddresses(d)
    \/ \E d \in Devices : GetAlgebExt(d)

SpecAddr == InitAddr /\ [][NextAddr]_vars

OwnVariables(d, kind) == IF kind = "x" THEN decl[d].state_int ELSE decl[d].algeb_int

\* <<device, variable, element>> of every own variable of the kind.
OwnSlots(kind) ==
    UNION {UNION {{<<d, v, i>> : i \in 1..n(d)} : v \in Range(OwnVariables(d, kind))} :
              d \in Devices}

SlotAddress(s) == dae_address[s[1]][s[2]][s[3]]

(***************************************************************************)
(* C7: once every device has run get_var_address, in each segment (state   *)
(* 'x', algebraic 'y') every own variable of every device has one address  *)
(* per element, no two (device, variable, element) share an address, and   *)
(* the segment's length is the sum over the devices of (number of          *)
(* variables of the kind) * (number of elements), with no address outside. *)
(***************************************************************************)
C7_AddressesDisjoint ==
    (\A d \in Devices : calls[d] > 0) =>
        \A kind \in {"x", "y"} :
            /\ \A d \in Devices : \A v \in Range(OwnVariables(d, kind)) :
                  v \in DOMAIN dae_address[d] /\ Len(dae_address[d][v]) = n(d)
            /\ \A s, t \in OwnSlots(kind) : s # t => SlotAddress(s) # SlotAddress(t)
            /\ dae[kind] = SumOver(Devices, [d \in Devices |-> Len(OwnVariables(d, kind)) * n(d)])
            /\ \A s \in OwnSlots(kind) : SlotAddress(s) \in 0..dae[kind] - 1

\* All three devices have elements and addresses, in both segments.
C7_Witness ==
    /\ \A d \in Devices : calls[d] > 0 /\ n(d) = MaxN
    /\ Cardinality({SlotAddress(s) : s \in OwnSlots("x")}) = 2 * MaxN
    /\ Cardinality({SlotAddress(s) : s \in OwnSlots("y")}) = 4 * MaxN

(***************************************************************************)
(* Expansion on its own: a generator device whose quantities 'v' (imported *)
(* from the bus), 'v0' (parameter) and 'q' (own variable) are present with *)
(* any length or absent.  The expansions are called with any template, any *)
(* enumeration order of its free symbols and any return type;              *)
(* _compute_variable is called on a device whose _var_int_computed holds   *)
(* any of the declarations below.                                          *)
(***************************************************************************)
Templates == {"0", "v - v0", "v + q", "v - zz", "v - idx", "2*v0 + 1", "-q"}

ReturnTypes == {"None", "list", "Array"}

ListDecl(items) == [islist |-> TRUE, items |-> items]

\* The declarations: lists of one to three items, lists of other lengths, a
\* bare string, and modes the engine does not know.
EquationDeclarations ==
    {ListDecl(<<"v - v0">>), ListDecl(<<"v - v0", "vectorized">>),
     ListDecl(<<"v + q", "singleton">>), ListDecl(<<"v - v0", "vectorized", "list">>),
     ListDecl(<<"v + q", "singleton", "Array">>), ListDecl(<<"v - v0", "matrix">>),
     ListDecl(<<"v0", "Vectorized", "list">>),
     ListDecl(<<>>), ListDecl(<<"v0", "vectorized", "list", "Array">>),
     [islist |-> FALSE, items |-> <<"v0">>]}

VarIntComputed ==
    {<<<<"w", e>>>> : e \in EquationDeclarations}
    \cup {<<<<"w", ListDecl(<<"v - v0", "vectorized", "list">>)>>, <<"z", e>>>> :
             e \in {ListDecl(<<"v + q", "matrix">>), ListDecl(<<"v + q">>)}}

\* The quantity 'v' as imported from the bus; in an aliased bag its first
\* value is a symbol named like the parameter 'v0'.
ImportedV(count, alias) ==
    Array([k \in 1..count |-> IF alias /\ k = 1 THEN symbols("v0")
                              ELSE symbols("Bus_v_" \o ToString(k - 1))])

\* The device with 'v' of length lv and 'v0' of length lv0 (-1: absent); 'v0'
\* holds its placeholders as _init_data leaves them, or in a Python list as
\* _compute_param_int stores a derived parameter.
InitQuantities(lv, lv0, alias, vd, aslist) ==
    LET elements == create_n_default_elements(MaxN)
        present == {"q"} \cup (IF lv >= 0 THEN {"v"} ELSE {}) \cup (IF lv0 >= 0 THEN {"v0"} ELSE {})
    IN  /\ alias => lv >= 1
        /\ aslist => lv0 >= 0
        /\ decl = [d \in {"pv"} |-> [PVDevice EXCEPT !.var_int_computed = vd]]
        /\ idx = [d \in {"pv"} |-> elements.idx]
        /\ int = [d \in {"pv"} |-> elements.int]
        /\ attrs = [d \in {"pv"} |->
                      [x \in present |->
                          CASE x = "v" -> ImportedV(lv, alias)
                            [] x = "v0" -> IF aslist THEN List(placeholders("PV", "v0", lv0).arr)
                                           ELSE placeholders("PV", "v0", lv0)
                            [] OTHER -> placeholders("PV", "q", MaxN)]]
        /\ symbol_singleton = Blank({"pv"})
        /\ dae_address = Blank({"pv"})
        /\ gcall_int_symbolic_singleton = Blank({"pv"})
        /\ gcall_ext_symbolic_singleton = Blank({"pv"})
        /\ gcall_int_symbolic = Blank({"pv"})
        /\ gcall_ext_symbolic = Blank({"pv"})
        /\ dae = NoDae
        /\ ret = Return(None)
        /\ calls = [d \in {"pv"} |-> 0]

InitExpand ==
    \E lv \in -1..MaxN : \E lv0 \in -1..MaxN : \E alias \in BOOLEAN : \E aslist \in BOOLEAN :
        InitQuantities(lv, lv0, alias, <<>>, aslist)

InitCompute ==
    \E lv \in -1..MaxN : \E lv0 \in -1..MaxN : \E alias \in BOOLEAN :
    \E vd \in VarIntComputed :
        InitQuantities(lv, lv0, alias, vd, FALSE)

\* What an expansion leaves in ret: the call with its arguments and its outcome.
Expanded(op, d, eq, order, return_as, r) ==
    [op |-> op, dev |-> d, eq |-> eq, order |-> order, return_as |-> return_as] @@ r

SubsAllVectorized(d) ==
    \E eq \in Templates : \E order \in Perms(free_symbols(sympify(eq))) :
    \E return_as \in ReturnTypes :
        /\ ret' = Expanded("_subs_all_vectorized", d, eq, order, return_as,
                           subs_all_vectorized(Bag(d), sympify(eq), order, return_as))
        /\ UNCHANGED <<calls, decl, idx, int, attrs, symbol_singleton, dae_address,
                       gcall_int_symbolic_singleton, gcall_ext_symbolic_singleton,
                       gcall_int_symbolic, gcall_ext_symbolic, dae>>

SubsAllSingleton(d) ==
    \E eq \in Templates : \E order \in Perms(free_symbols(sympify(eq))) :
    \E return_as \in ReturnTypes :
        /\ ret' = Expanded("_subs_all_singleton", d, eq, order, return_as,
                           subs_all_singleton(Bag(d), sympify(eq), order, return_as))
        /\ UNCHANGED <<calls, decl, idx, int, attrs, symbol_singleton, dae_address,
                       gcall_int_symbolic_singleton, gcall_ext_symbolic_singleton,
                       gcall_int_symbolic, gcall_ext_symbolic, dae>>

ComputeVariable(d) ==
    \E rev \in BOOLEAN :
        LET r == compute_variable(d, rev)
        IN  /\ attrs' = [attrs EXCEPT ![d] = r.attrs]
            /\ ret' = [op |-> "_compute_variable", dev |-> d, rev |-> rev] @@ r.ret
            /\ UNCHANGED <<calls, decl, idx, int, symbol_singleton, dae_address,
                           gcall_int_symbolic_singleton, gcall_ext_symbolic_singleton,
                           gcall_int_symbolic, gcall_ext_symbolic, dae>>

NextExpand ==
    \/ \E d \in Devices : SubsAllVectorized(d)
    \/ \E d \in Devices : SubsAllSingleton(d)

SpecExpand == InitExpand /\ [][NextExpand]_vars

NextCompute == \E d \in Devices : ComputeVariable(d)

SpecCompute == InitCompute /\ [][NextCompute]_vars

\* The operation the last call was, "" when ret holds no call.
Op(r) == IF "op" \in DOMAIN r THEN r.op ELSE ""

FreeSymbolsOf(eq) == free_symbols(sympify(eq))

\* No value of a quantity of d holds a symbol named like a quantity of d.
Concrete(d) ==
    \A x \in DOMAIN attrs[d] : \A k \in DOMAIN Items(attrs[d][x]) :
        free_symbols(Items(attrs[d][x])[k]) \cap DOMAIN attrs[d] = {}

\* The template with every free symbol replaced by the i-th value of the
\* quantity of the same name.
ElementWise(d, eq, i) ==
    xreplace(sympify(eq), [x \in FreeSymbolsOf(eq) |-> Items(attrs[d][x])[i]])

\* The number of equations: the minimum length of the referenced quantities,
\* the number of elements when none is referenced.
ExpectedCount(d, eq) ==
    IF FreeSymbolsOf(eq) = {} THEN n(d)
    ELSE Min({len(attrs[d][x]) : x \in FreeSymbolsOf(eq)})

VectorizedAsSpecified(d, eq, r) ==
    /\ r.ok
    /\ Items(r.val) = [i \in 1..ExpectedCount(d, eq) |-> ElementWise(d, eq, i)]
    /\ \A i \in DOMAIN Items(r.val) : free_symbols(Items(r.val)[i]) \cap DOMAIN attrs[d] = {}

(***************************************************************************)
(* C3 (the part the code keeps): vectorized expansion of a template with   *)
(* at least one free symbol, all of them quantities of the device with     *)
(* concrete values, returns m equations, m the minimum length of the       *)
(* referenced quantities, equation i being the template with every free    *)
(* symbol replaced by the i-th value of its quantity.                      *)
(***************************************************************************)
C3_TemplateWithSymbols ==
    (/\ Op(ret) = "_subs_all_vectorized"
     /\ FreeSymbolsOf(ret.eq) # {}
     /\ FreeSymbolsOf(ret.eq) \subseteq DOMAIN attrs[ret.dev]
     /\ Concrete(ret.dev))
        => VectorizedAsSpecified(ret.dev, ret.eq, ret)

\* C3 as claimed: also for a template with no free symbols.
C3_AnyDeclaredTemplate ==
    (/\ Op(ret) = "_subs_all_vectorized"
     /\ FreeSymbolsOf(ret.eq) \subseteq DOMAIN attrs[ret.dev]
     /\ Concrete(ret.dev))
        => VectorizedAsSpecified(ret.dev, ret.eq, ret)

\* 'v' has two values and 'v0' one: one equation.
C3_Witness ==
    /\ Op(ret) = "_subs_all_vectorized" /\ ret.eq = "v - v0" /\ ret.order = <<"v0", "v">>
    /\ "v" \in DOMAIN attrs["pv"] /\ len(attrs["pv"]["v"]) = 2
    /\ ret.return_as = "Array"
    /\ ret.val = Array(<<Add(symbols("Bus_v_0"), Neg(symbols("PV_v0_0")))>>)

\* The device's whole quantity as an operand: the expression, or the array
\* of all its values.
WholeQuantity(v) == IF v.ctype = "Expr" THEN v.e ELSE {<<ArrayAtom(Items(v)), 1>>}

\* The outcome of the singleton expansion in ret is the template with every
\* free symbol in `replaced` replaced in one pass by the device's whole
\* quantity of that name, the other symbols left as they are, and every
\* order of enumeration gives that same outcome.
SingletonReplaces(replaced) ==
    LET d == ret.dev
        expected == ApplyType(ret.return_as,
                        FromExpr(xreplace(sympify(ret.eq),
                            [x \in replaced |-> WholeQuantity(Bag(d)[x])])))
    IN  /\ ret.ok = expected.ok /\ ret.val = expected.val /\ ret.exc = expected.exc
        /\ \A order \in Perms(FreeSymbolsOf(ret.eq)) :
              LET other == subs_all_singleton(Bag(d), sympify(ret.eq), order, ret.return_as)
              IN  other.ok = ret.ok /\ other.val = ret.val

(***************************************************************************)
(* C4 (the part the code keeps): singleton expansion replaces in one pass  *)
(* every free symbol whose quantity is a sympy value (an expression or an  *)
(* Array) by the device's whole quantity of that name, whatever the order  *)
(* in which the free symbols are enumerated and also when the value of one *)
(* quantity holds a symbol named like another free symbol of the template; *)
(* a free symbol whose quantity is a Python list is left in the result.    *)
(***************************************************************************)
C4_SingletonSimultaneous ==
    (Op(ret) = "_subs_all_singleton" /\ FreeSymbolsOf(ret.eq) \subseteq DOMAIN Bag(ret.dev)) =>
        SingletonReplaces({x \in FreeSymbolsOf(ret.eq) : Sympifies(Bag(ret.dev)[x])})

\* C4 as claimed: singleton expansion equals the template with each original
\* free symbol replaced, in one pass, by the device's whole quantity of that
\* name, independent of the order of enumeration, also under aliasing.
C4_EveryQuantityReplaced ==
    (Op(ret) = "_subs_all_singleton" /\ FreeSymbolsOf(ret.eq) \subseteq DOMAIN Bag(ret.dev)) =>
        SingletonReplaces(FreeSymbolsOf(ret.eq))

\* 'v - v0' expanded where 'v' is an Array and 'v0' a Python list: 'v' is
\* replaced and the symbol 'v0' is still in the result.
C4_Witness ==
    /\ Op(ret) = "_subs_all_singleton" /\ ret.ok
    /\ ret.eq = "v - v0" /\ ret.order = <<"v", "v0">>
    /\ attrs["pv"]["v"].ctype = "Array" /\ len(attrs["pv"]["v"]) = MaxN
    /\ attrs["pv"]["v0"].ctype = "list" /\ len(attrs["pv"]["v0"]) = MaxN
    /\ Concrete("pv")
    /\ free_symbols(ret.val.e) = {"v0"} \cup {"Bus_v_" \o ToString(k - 1) : k \in 1..MaxN}

\* 'v - v0' over sympy values, 'v' enumerated first, where the first value
\* of 'v' is a symbol named 'v0': that symbol is still in the result.
C4_WitnessAliased ==
    /\ Op(ret) = "_subs_all_singleton" /\ ret.ok
    /\ ret.eq = "v - v0" /\ ret.order = <<"v", "v0">>
    /\ ~Concrete("pv") /\ len(attrs["pv"]["v0"]) > 0 /\ Sympifies(attrs["pv"]["v0"])
    /\ "v0" \in free_symbols(ret.val.e)

(***************************************************************************)
(* C5 (the part the code keeps): an expansion of a template with a free    *)
(* symbol that is no attribute of the device raises KeyError, which names  *)
(* the first such symbol enumerated, and returns nothing.                  *)
(***************************************************************************)
C5_MissingAttributeRaises ==
    (/\ Op(ret) \in {"_subs_all_vectorized", "_subs_all_singleton"}
     /\ FreeSymbolsOf(ret.eq) \ DOMAIN Bag(ret.dev) # {}) =>
        /\ ~ret.ok /\ ret.exc = "KeyError" /\ ret.val = None
        /\ ret.args = <<ret.order[Min({k \in DOMAIN ret.order :
                                          ret.order[k] \notin DOMAIN Bag(ret.dev)})]>>

\* C5 as claimed: a free symbol that is no quantity of the device makes the
\* expansion fail with an error naming the symbol and the device.
C5_MissingQuantityNamesSymbolAndDevice ==
    (/\ Op(ret) \in {"_subs_all_vectorized", "_subs_all_singleton"}
     /\ FreeSymbolsOf(ret.eq) \ DOMAIN attrs[ret.dev] # {}) =>
        /\ ~ret.ok /\ ret.val = None
        /\ \E x \in FreeSymbolsOf(ret.eq) \ DOMAIN attrs[ret.dev] : x \in Range(ret.args)
        /\ decl[ret.dev].name \in Range(ret.args)

C5_Witness ==
    /\ Op(ret) = "_subs_all_vectorized" /\ ret.eq = "v - zz"
    /\ "v" \in DOMAIN attrs["pv"] /\ len(attrs["pv"]["v"]) > 0
    /\ ~ret.ok /\ ret.args = <<"zz">>

\* A declaration of one of the supported forms.
Supported(e) ==
    /\ e.islist /\ Len(e.items) \in {1, 2, 3}
    /\ Len(e.items) >= 2 => e.items[2] \in {"vectorized", "singleton"}

\* What a supported declaration asks for: the expansion in the declared mode
\* (vectorized when none is declared), converted by the declared return type.
ExpectedVariable(d, e, rev) ==
    LET template == sympify(e.items[1])
        order == OrderOf(free_symbols(template), rev)
        mode == IF Len(e.items) >= 2 THEN e.items[2] ELSE "vectorized"
        expanded == IF mode = "vectorized"
                      THEN subs_all_vectorized(Bag(d), template, order, "Array")
                      ELSE subs_all_singleton(Bag(d), template, order, "None")
    IN  IF ~expanded.ok \/ Len(e.items) < 3 THEN expanded
        ELSE ApplyType(e.items[3], expanded.val)

(***************************************************************************)
(* C10: _compute_variable visits the declarations in order.  A declaration *)
(* [equation], [equation, mode] or [equation, mode, return_type] with mode *)
(* vectorized or singleton is expanded in that mode (vectorized when no    *)
(* mode is given) and the result, converted by the return type if one is   *)
(* given, is stored under the variable's name; any other mode and any      *)
(* other shape raises NotImplementedError, and nothing else does.          *)
(***************************************************************************)
C10_ComputeVariableModes ==
    Op(ret) = "_compute_variable" =>
        LET d == ret.dev
            D == decl[d].var_int_computed
            Reached(k) == \A j \in 1..k - 1 :
                             Supported(D[j][2]) /\ ExpectedVariable(d, D[j][2], ret.rev).ok
        IN  /\ \A k \in DOMAIN D : Reached(k) =>
                  IF ~Supported(D[k][2]) THEN ~ret.ok /\ ret.exc = "NotImplementedError"
                  ELSE LET expected == ExpectedVariable(d, D[k][2], ret.rev)
                       IN  IF expected.ok
                             THEN D[k][1] \in DOMAIN attrs[d] /\ attrs[d][D[k][1]] = expected.val
                             ELSE ~ret.ok /\ ret.exc = expected.exc
            /\ ret.exc = "NotImplementedError" =>
                  \E k \in DOMAIN D : Reached(k) /\ ~Supported(D[k][2])

\* The first declaration was expanded as vectorized and stored as a list, the
\* second declares a mode that does not exist.
C10_Witness ==
    /\ Op(ret) = "_compute_variable" /\ ret.exc = "NotImplementedError"
    /\ Len(decl["pv"].var_int_computed) = 2
    /\ "w" \in DOMAIN attrs["pv"] /\ attrs["pv"]["w"].ctype = "list"
    /\ len(attrs["pv"]["w"]) = MaxN
    /\ "z" \notin DOMAIN attrs["pv"]

(***************************************************************************)
(* Element creation on its own: one device, created empty, on which        *)
(* create_n_default_elements, add_element and idx2int are called in any    *)
(* order with any arguments.                                               *)
(***************************************************************************)
\* The idx values a caller supplies.
IdxValues == 0..MaxN + 1

InitElements ==
    /\ decl = [d \in {"bus"} |-> Bus]
    /\ idx = [d \in {"bus"} |-> <<>>]
    /\ int = Blank({"bus"})
    /\ attrs = Blank({"bus"})
    /\ symbol_singleton = Blank({"bus"})
    /\ dae_address = Blank({"bus"})
    /\ gcall_int_symbolic_singleton = Blank({"bus"})
    /\ gcall_ext_symbolic_singleton = Blank({"bus"})
    /\ gcall_int_symbolic = Blank({"bus"})
    /\ gcall_ext_symbolic = Blank({"bus"})
    /\ dae = NoDae
    /\ ret = Return(None)
    /\ calls = [d \in {"bus"} |-> 0]

\* create_n_default_elements(count): 'assert n >= 0', then idx and _int are replaced.
CreateNDefaultElements(d) ==
    \E count \in -1..MaxN :
        /\ IF count >= 0
             THEN /\ idx' = [idx EXCEPT ![d] = create_n_default_elements(count).idx]
                  /\ int' = [int EXCEPT ![d] = create_n_default_elements(count).int]
                  /\ ret' = Call("create_n_default_elements", d, Return(None))
             ELSE /\ UNCHANGED <<idx, int>>
                  /\ ret' = Call("create_n_default_elements", d, Raise("AssertionError", <<>>))
        /\ UNCHANGED <<calls, decl, attrs, symbol_singleton, dae_address,
                       gcall_int_symbolic_singleton, gcall_ext_symbolic_singleton,
                       gcall_int_symbolic, gcall_ext_symbolic, dae>>

AddElement(d) ==
    /\ n(d) < MaxN
    /\ \E i \in IdxValues :
          LET r == add_element(d, i, Empty)
          IN  /\ idx' = [idx EXCEPT ![d] = r.idx]
              /\ int' = [int EXCEPT ![d] = r.int]
              /\ attrs' = [attrs EXCEPT ![d] = r.attrs]
              /\ ret' = Call("add_element", d, r.ret)
    /\ UNCHANGED <<calls, decl, symbol_singleton, dae_address,
                   gcall_int_symbolic_singleton, gcall_ext_symbolic_singleton,
                   gcall_int_symbolic, gcall_ext_symbolic, dae>>

Idx2Int(d) ==
    /\ \E idxs \in UNION {[1..m -> IdxValues] : m \in 1..2} :
          ret' = [op |-> "idx2int", dev |-> d, idxs |-> idxs] @@ idx2int(d, idxs)
    /\ UNCHANGED <<calls, decl, idx, int, attrs, symbol_singleton, dae_address,
                   gcall_int_symbolic_singleton, gcall_ext_symbolic_singleton,
                   gcall_int_symbolic, gcall_ext_symbolic, dae>>

NextElements ==
    \/ \E d \in Devices : CreateNDefaultElements(d)
    \/ \E d \in Devices : AddElement(d)
    \/ \E d \in Devices : Idx2Int(d)

SpecElements == InitElements /\ [][NextElements]_vars

\* The idx-to-int mapping of d maps the idx list one-to-one onto the rows
\* 0..n-1, the k-th idx added to row k-1.
Bijection(d) ==
    /\ DOMAIN int[d] = Range(idx[d])
    /\ \A k \in DOMAIN idx[d] : int[d][idx[d][k]] = k - 1
    /\ \A j, k \in DOMAIN idx[d] : idx[d][j] = idx[d][k] => j = k
    /\ Cardinality(DOMAIN int[d]) = n(d)
    /\ {int[d][i] : i \in DOMAIN int[d]} = 0..n(d) - 1

RoundTrip(d) ==
    /\ \A i \in Range(idx[d]) :
          /\ idx2int(d, <<i>>).ok
          /\ int2idx(d, IntsOf(idx2int(d, <<i>>).val)) = <<i>>
    /\ (Op(ret) = "idx2int" /\ ret.dev = d /\ ret.ok) =>
          int2idx(d, IntsOf(ret.val)) = ret.idxs

\* An element lives from the call that creates it until the next
\* create_n_default_elements on its device, which replaces all of the device's
\* elements by new ones.  While it lives, its row is the same.
RowsKept(d) ==
    ~(CreateNDefaultElements(d) /\ ret'.ok) =>
        \A i \in DOMAIN int[d] : i \in DOMAIN int'[d] /\ int'[d][i] = int[d][i]

(***************************************************************************)
(* C1: after any sequence of create_n_default_elements and add_element,    *)
(* the idx-to-int mapping of every device is a bijection between its       *)
(* current idx list and the rows 0..n-1 in insertion order, n being the    *)
(* length of the idx list; int2idx(idx2int([i])) = [i] for every idx i of  *)
(* the device; and the row of an element is the same in every state of its *)
(* lifetime.                                                               *)
(***************************************************************************)
C1_IdxIntBijection ==
    /\ [](\A d \in Devices : Bijection(d) /\ RoundTrip(d))
    /\ [][\A d \in Devices : RowsKept(d)]_vars

\* Elements added one by one with idx in descending order, and looked up.
C1_Witness ==
    /\ idx["bus"] = <<MaxN + 1, 0>>
    /\ Op(ret) = "idx2int" /\ ret.idxs = <<0, MaxN + 1>> /\ IntsOf(ret.val) = <<1, 0>>

(***************************************************************************)
(* The consistency check on its own: a device class with any number of     *)
(* declarations of each kind.                                              *)
(***************************************************************************)
MaxDecl == 2

\* The name of the k-th declared variable.
VarName(k) == "y" \o ToString(k)

InitMeta ==
    \E na \in 0..MaxDecl : \E ne \in 0..MaxDecl : \E ni \in 0..MaxDecl :
    \E nf \in 0..MaxDecl : \E ng \in 0..MaxDecl : \E flag \in BOOLEAN : \E same \in BOOLEAN :
        /\ decl = [d \in {"dev"} |->
                     [DeviceBase("Dev") EXCEPT
                         !.algeb_ext = [k \in 1..na |-> <<VarName(k), "Bus", VarName(k)>>],
                         !.gcall_ext = [k \in 1..ne |->
                                           <<VarName(IF same THEN k ELSE k + 1), "-q">>],
                         !.algeb_int = [k \in 1..ni |-> VarName(k)],
                         !.algeb_intf = [k \in 1..nf |-> VarName(k)],
                         !.gcall_int = [k \in 1..ng |-> <<VarName(k), "v - v0">>],
                         !.special_flags.no_algeb_ext_check = flag]]
        /\ idx = [d \in {"dev"} |-> <<>>]
        /\ int = Blank({"dev"})
        /\ attrs = Blank({"dev"})
        /\ symbol_singleton = Blank({"dev"})
        /\ dae_address = Blank({"dev"})
        /\ gcall_int_symbolic_singleton = Blank({"dev"})
        /\ gcall_ext_symbolic_singleton = Blank({"dev"})
        /\ gcall_int_symbolic = Blank({"dev"})
        /\ gcall_ext_symbolic = Blank({"dev"})
        /\ dae = NoDae
        /\ ret = Return(None)
        /\ calls = [d \in {"dev"} |-> 0]

MetadataCheck(d) ==
    /\ ret' = Call("metadata_check", d, metadata_check(decl[d]))
    /\ UNCHANGED <<calls, decl, idx, int, attrs, symbol_singleton, dae_address,
                   gcall_int_symbolic_singleton, gcall_ext_symbolic_singleton,
                   gcall_int_symbolic, gcall_ext_symbolic, dae>>

NextMeta == \E d \in Devices : MetadataCheck(d)

SpecMeta == InitMeta /\ [][NextMeta]_vars

\* As many external equations as imported variables, or the device exempted.
ExtMatched(c) == c.special_flags.no_algeb_ext_check \/ Len(c.algeb_ext) = Len(c.gcall_ext)

\* At least as many internal equations as internal variables that are not
\* interface variables.
IntEnough(c) == Len(c.algeb_int) - Len(c.algeb_intf) <= Len(c.gcall_int)

(***************************************************************************)
(* C9 (as amended): metadata_check accepts a device exactly when BOTH the  *)
(* number of its external equations equals the number of its imported      *)
(* variables (or the device is exempted by no_algeb_ext_check) AND the     *)
(* number of its internal equations is at least the number of internal     *)
(* algebraic variables minus the number of interface variables; otherwise  *)
(* it raises AssertionError with a message that starts with the class name *)
(* and tells which of the two counts failed, the external one first.  Only *)
(* the counts are compared, not the names.  No device state changes.       *)
(***************************************************************************)
C9_BothCountsRequired ==
    /\ [](Op(ret) = "metadata_check" =>
            LET c == decl[ret.dev]
            IN  /\ ret.ok <=> (ExtMatched(c) /\ IntEnough(c))
                /\ ~ExtMatched(c) =>
                      /\ ret.exc = "AssertionError"
                      /\ ret.args = <<c.name \o " Number of _algeb_ext does not equal _gcall_ext">>
                /\ (ExtMatched(c) /\ ~IntEnough(c)) =>
                      /\ ret.exc = "AssertionError"
                      /\ ret.args = <<c.name \o " Too few gcall_int equations">>)
    /\ [][\A d \in Devices : MetadataCheck(d) =>
             UNCHANGED <<calls, decl, idx, int, attrs, symbol_singleton, dae_address,
                         gcall_int_symbolic_singleton, gcall_ext_symbolic_singleton,
                         gcall_int_symbolic, gcall_ext_symbolic, dae>>]_vars

\* C9 as claimed: either of the two conditions is enough to be accepted.
C9_EitherCountSuffices ==
    Op(ret) = "metadata_check" =>
        (ret.ok <=> (ExtMatched(decl[ret.dev]) \/ IntEnough(decl[ret.dev])))

\* A device whose external equations match its imports is refused for having
\* too few internal equations.
C9_Witness ==
    /\ Op(ret) = "metadata_check" /\ ~ret.ok
    /\ Len(decl["dev"].algeb_ext) = MaxDecl /\ Len(decl["dev"].gcall_ext) = MaxDecl
    /\ ~decl["dev"].special_flags.no_algeb_ext_check
    /\ Keys(decl["dev"].gcall_ext) # Keys(decl["dev"].algeb_ext)
    /\ ret.args = <<"Dev Too few gcall_int equations">>

(***************************************************************************)
(* The order of the stages.  The documented order of the stages of a       *)
(* device is: _init_data, get_var_address, get_algeb_ext,                  *)
(* make_gcall_int_symbolic and make_gcall_ext_symbolic,                    *)
(* delayed_symbol_sub_all; a device's get_algeb_ext comes after the        *)
(* _init_data and get_var_address of the device it imports from.           *)
(***************************************************************************)
\* The templates of d have been turned into expressions.
MadeSymbolic(d) ==
    /\ DOMAIN gcall_int_symbolic_singleton[d] = Range(Keys(decl[d].gcall_int))
    /\ DOMAIN gcall_ext_symbolic_singleton[d] = Range(Keys(decl[d].gcall_ext))

\* Device t has declared the symbols and holds the addresses of its variables.
DeclaredAndAllocated(t) ==
    \A v \in Range(decl[t].algeb_int) : v \in DOMAIN attrs[t] /\ v \in DOMAIN dae_address[t]

\* The equations stored on d are those of the in-order run: one entry per
\* declared template, with one equation per element.
EquationsOfInOrderRun(ext, int_, d) ==
    /\ DOMAIN ext = Range(Keys(decl[d].gcall_ext))
    /\ DOMAIN int_ = Range(Keys(decl[d].gcall_int))
    /\ \A var \in DOMAIN ext : len(ext[var]) = n(d)
    /\ \A var \in DOMAIN int_ : len(int_[var]) = n(d)

(***************************************************************************)
(* C11 (the part the code keeps): get_algeb_ext of a device with elements  *)
(* that imports through a foreign key from a device that has not yet       *)
(* declared its symbols or been allocated its addresses raises an error.   *)
(***************************************************************************)
C11_ImportBeforeTargetFails ==
    [][\A d \in Devices :
          (/\ GetAlgebExt(d)
           /\ KeyImports(d) # {}
           /\ \E k \in KeyImports(d) : ~DeclaredAndAllocated(Target(d, k)))
              => ~ret'.ok /\ ret'.exc \in {"KeyError", "IndexError"}]_vars

\* C11 as the specification states it: a stage run out of order fails, so a
\* stage that returns without error has stored what the in-order run stores.
C11_OutOfOrderStageFails ==
    [][\A d \in Devices :
          (DelayedSymbolSubAll(d) /\ ret'.ok)
              => EquationsOfInOrderRun(gcall_ext_symbolic'[d], gcall_int_symbolic'[d], d)]_vars

\* The generator device resolved its imports although the bus device had
\* addresses but no symbols yet: the call failed.
C11_Witness ==
    /\ ~ret.ok /\ ret.op = "get_algeb_ext" /\ ret.dev = "pv" /\ ret.args = <<"a">>
    /\ n("pv") > 0 /\ n("bus") > 0
    /\ "a" \in DOMAIN dae_address["bus"] /\ "a" \notin DOMAIN attrs["bus"]

(***************************************************************************)
(* Reference resolution on its own: a bus device, a generator device that  *)
(* imports through its foreign key 'bus', and a device that imports from   *)
(* the bus device by class name; _init_data, get_var_address and           *)
(* get_algeb_ext are called in any order.                                  *)
(***************************************************************************)
\* A DeviceBase subclass whose import names the device class, not a parameter.
Mon == [DeviceBase("Mon") EXCEPT !.algeb_ext = <<<<"vb", "Bus", "v">>>>]

InitImport ==
    \E nb \in 0..MaxBus : \E nm \in 0..MaxN :
    \E fk \in UNION {[1..m -> 0..nb - 1] : m \in 0..MaxPV} :
        LET D == {"bus", "pv", "mon"}
        IN  /\ decl = [d \in D |-> CASE d = "bus" -> Bus [] d = "pv" -> PVDevice [] OTHER -> Mon]
            /\ idx = [d \in D |-> CASE d = "bus" -> BusIdx(nb)
                                    [] d = "pv" -> Range0(Len(fk))
                                    [] OTHER -> Range0(nm)]
            /\ int = [d \in D |-> CASE d = "bus" -> [i \in Range(BusIdx(nb)) |-> nb - 1 - i]
                                    [] d = "pv" -> create_n_default_elements(Len(fk)).int
                                    [] OTHER -> create_n_default_elements(nm).int]
            /\ attrs = [d \in D |->
                          IF d = "pv" THEN [p \in {"bus"} |-> List([k \in DOMAIN fk |-> Integer(fk[k])])]
                          ELSE Empty]
            /\ symbol_singleton = Blank(D)
            /\ dae_address = Blank(D)
            /\ gcall_int_symbolic_singleton = Blank(D)
            /\ gcall_ext_symbolic_singleton = Blank(D)
            /\ gcall_int_symbolic = Blank(D)
            /\ gcall_ext_symbolic = Blank(D)
            /\ dae = NoDae
            /\ ret = Return(None)
            /\ calls = [d \in D |-> 0]

NextImport ==
    \/ \E d \in Devices : InitData(d)
    \/ \E d \in Devices : GetVarAddress(d)
    \/ \E d \in Devices : GetAlgebExt(d)

SpecImport == InitImport /\ [][NextImport]_vars

\* Import k of device d names a device class directly rather than a parameter.
ClassImports(d) == {k \in DOMAIN decl[d].algeb_ext :
                       decl[d].algeb_ext[k][2] \notin Range(decl[d].param_int)}

\* The imported symbols and addresses of import k of d, after the call, are
\* those of the target's rows `rows` (0-based), entry by entry.
ImportedRows(d, k, B, rows, attrs_after, address_after) ==
    LET dest == decl[d].algeb_ext[k][1]
        var == decl[d].algeb_ext[k][3]
    IN  /\ dest \in DOMAIN attrs_after /\ dest \in DOMAIN address_after
        /\ len(attrs_after[dest]) = Len(rows)
        /\ Len(address_after[dest]) = Len(rows)
        /\ \A i \in DOMAIN rows :
              /\ Items(attrs_after[dest])[i] = Items(attrs[B][var])[rows[i] + 1]
              /\ address_after[dest][i] = dae_address[B][var][rows[i] + 1]

\* Every import through a foreign-key parameter follows the key: element i
\* of d gets the row of the target whose idx is d's i-th key value.
KeyImportsFollowKey(d, attrs_after, address_after) ==
    \A k \in KeyImports(d) :
        /\ Len(KeyValues(d, k)) = n(d)
        /\ ImportedRows(d, k, Target(d, k),
                        [i \in DOMAIN KeyValues(d, k) |-> int[Target(d, k)][KeyValues(d, k)[i]]],
                        attrs_after, address_after)

\* Every import by class name has `count` entries, entry i being row i of
\* the named device.
ClassImportsPositional(d, attrs_after, address_after, count) ==
    \A k \in ClassImports(d) :
        LET B == lower(decl[d].algeb_ext[k][2])
        IN  ImportedRows(d, k, B, Range0(count[B]), attrs_after, address_after)

\* The two candidate sizes of a class-name import of d from B.
ElementCountOfImporter(d) == [B \in Devices |-> n(d)]

ElementCountOfTarget(d) == [B \in Devices |-> n(B)]

\* C12 (as the code has it): after a successful get_algeb_ext on A, an import
\* keyed by a foreign-key parameter gives A's element i the symbol and address
\* of the target's row idx2int(A.key[i]); an import keyed by a device-class
\* name B gives A one entry per element of B, entry i being B's row i.
C12_ImportsFollowReference ==
    [][\A d \in Devices :
          (GetAlgebExt(d) /\ ret'.ok)
              => /\ KeyImportsFollowKey(d, attrs'[d], dae_address'[d])
                 /\ ClassImportsPositional(d, attrs'[d], dae_address'[d], ElementCountOfTarget(d))]_vars

\* C12 (as claimed): the same, but an import keyed by a device-class name
\* leaves A.dest and A._dae_address[dest] with exactly elementCount(A) entries.
C12_ClassImportHasImporterCount ==
    [][\A d \in Devices :
          (GetAlgebExt(d) /\ ret'.ok)
              => /\ KeyImportsFollowKey(d, attrs'[d], dae_address'[d])
                 /\ ClassImportsPositional(d, attrs'[d], dae_address'[d], ElementCountOfImporter(d))]_vars

\* Both kinds of import have run: the generator's keys are not in row order,
\* and the class-name importer has a different element count from the bus.
C12_Witness ==
    /\ ret.ok
    /\ "v" \in DOMAIN dae_address["pv"] /\ "vb" \in DOMAIN dae_address["mon"]
    /\ n("pv") = 2 /\ KeyValues("pv", 1)[1] # KeyValues("pv", 1)[2]
    /\ Len(dae_address["mon"]["vb"]) = n("bus") /\ n("mon") # n("bus")

(***************************************************************************)
(* Symbol declaration on its own: a device whose class declares any        *)
(* combination of a computational parameter, a computed and a custom       *)
(* parameter, an algebraic variable, a computed and a custom variable and  *)
(* a state variable; elements are created, _init_data and _init_equation   *)
(* are run, in any order and any number of times.                          *)
(***************************************************************************)
\* DeviceBase._init_equation: one storage array of zeros per algebraic,
\* interface and state variable, named '_' + the variable's name.
init_equation(d) ==
    LET items == Range(decl[d].algeb_int \o decl[d].algeb_intf \o decl[d].state_int)
    IN  Update(attrs[d],
               [eq_name \in {"_" \o item : item \in items} |->
                   MutableDenseNDimArray([k \in 1..n(d) |-> Integer(0)])])

InitEquation(d) ==
    /\ attrs' = [attrs EXCEPT ![d] = init_equation(d)]
    /\ ret' = Call("_init_equation", d, Return(None))
    /\ UNCHANGED <<calls, decl, idx, int, symbol_singleton, dae_address,
                   gcall_int_symbolic_singleton, gcall_ext_symbolic_singleton,
                   gcall_int_symbolic, gcall_ext_symbolic, dae>>

\* The values of subs_type a caller passes: the two the method accepts and
\* one it does not.
SubsTypes == {"vectorized", "singleton", "matrix"}

\* DeviceBase.delayed_symbol_sub called directly, on the internal or on the
\* external pair of dictionaries, with any subs_type, output_type and update.
\* The calls are counted together with those of delayed_symbol_sub_all.
DelayedSymbolSub(d) ==
    /\ calls[d] < MaxCalls
    /\ calls' = [calls EXCEPT ![d] = @ + 1]
    /\ \E internal \in BOOLEAN : \E subs_type \in SubsTypes : \E output_type \in ReturnTypes :
       \E update \in BOOLEAN : \E rev \in BOOLEAN :
        LET r == IF internal
                   THEN delayed_symbol_sub(d, gcall_int_symbolic_singleton[d],
                                           Keys(decl[d].gcall_int), gcall_int_symbolic[d],
                                           subs_type, output_type, update, rev)
                   ELSE delayed_symbol_sub(d, gcall_ext_symbolic_singleton[d],
                                           Keys(decl[d].gcall_ext), gcall_ext_symbolic[d],
                                           subs_type, output_type, update, rev)
        IN  /\ IF internal
                 THEN gcall_int_symbolic' = [gcall_int_symbolic EXCEPT ![d] = r.out]
                      /\ UNCHANGED gcall_ext_symbolic
                 ELSE gcall_ext_symbolic' = [gcall_ext_symbolic EXCEPT ![d] = r.out]
                      /\ UNCHANGED gcall_int_symbolic
            /\ ret' = [op |-> "delayed_symbol_sub", dev |-> d, update |-> update,
                       subs_type |-> subs_type] @@ r.ret
            /\ UNCHANGED <<decl, idx, int, attrs, symbol_singleton, dae_address,
                           gcall_int_symbolic_singleton, gcall_ext_symbolic_singleton, dae>>

Some(b, s) == IF b THEN s ELSE <<>>

InitSymbols ==
    \E hp \in BOOLEAN : \E hc \in BOOLEAN : \E hk \in BOOLEAN : \E ha \in BOOLEAN :
    \E hv \in BOOLEAN : \E hw \in BOOLEAN : \E hx \in BOOLEAN :
        /\ decl = [d \in {"dev"} |->
                     [DeviceBase("Dev") EXCEPT
                         !.param_int = @ \o Some(hp, <<"p0">>),
                         !.param_int_computed = Some(hc, <<<<"pc", "2*v0 + 1">>>>),
                         !.param_int_custom = Some(hk, <<"pk">>),
                         !.algeb_int = Some(ha, <<"q">>),
                         !.var_int_computed = Some(hv, <<<<"w", ListDecl(<<"v - v0">>)>>>>),
                         !.var_int_custom = Some(hw, <<<<"z", ListDecl(<<"v + q">>)>>>>),
                         !.state_int = Some(hx, <<"delta">>)]]
        /\ idx = [d \in {"dev"} |-> <<>>]
        /\ int = Blank({"dev"})
        /\ attrs = Blank({"dev"})
        /\ symbol_singleton = Blank({"dev"})
        /\ dae_address = Blank({"dev"})
        /\ gcall_int_symbolic_singleton = Blank({"dev"})
        /\ gcall_ext_symbolic_singleton = Blank({"dev"})
        /\ gcall_int_symbolic = Blank({"dev"})
        /\ gcall_ext_symbolic = Blank({"dev"})
        /\ dae = NoDae
        /\ ret = Return(None)
        /\ calls = [d \in {"dev"} |-> 0]

\* _init_data as called directly, the returned value kept.
InitDataCall(d) ==
    LET r == init_data(d)
    IN  /\ attrs' = [attrs EXCEPT ![d] = r.attrs]
        /\ symbol_singleton' = [symbol_singleton EXCEPT ![d] = r.symbol_singleton]
        /\ ret' = Call("_init_data", d, r.ret)
        /\ UNCHANGED <<calls, decl, idx, int, dae_address, gcall_int_symbolic_singleton,
                       gcall_ext_symbolic_singleton, gcall_int_symbolic, gcall_ext_symbolic, dae>>

NextSymbols ==
    \/ \E d \in Devices : CreateNDefaultElements(d)
    \/ \E d \in Devices : InitDataCall(d)
    \/ \E d \in Devices : InitEquation(d)

SpecSymbols == InitSymbols /\ [][NextSymbols]_vars

\* The quantities the declaration step is to give a symbol and an array:
\* computational parameters, computed and custom parameters, algebraic
\* variables, computed variables, state variables.
DeclaredQuantities(c) ==
    (Range(c.param_int) \ Range(c.param_int_non_computational))
    \cup Range(Keys(c.param_int_computed)) \cup Range(c.param_int_custom)
    \cup Range(c.algeb_int) \cup Range(Keys(c.var_int_computed)) \cup Range(c.state_int)

CustomVariables(c) == Range(Keys(c.var_int_custom))

\* Quantity `item` of d has its singleton symbol and an array of one
\* placeholder per element, in the given attribute bag and singleton table.
HasSymbolAndArray(d, item, bag, singleton) ==
    /\ item \in DOMAIN singleton /\ singleton[item] = item
    /\ item \in DOMAIN bag /\ bag[item].rank = 1 /\ len(bag[item]) = n(d)
    /\ \A k \in 1..n(d) :
          Items(bag[item])[k] = symbols(decl[d].name \o "_" \o item \o "_" \o ToString(k - 1))

HasNeither(item, bag, singleton) == item \notin DOMAIN singleton /\ item \notin DOMAIN bag

\* What one call of _init_data on d establishes, for the quantities `items`.
InitDataEstablishes(d, items) ==
    /\ ret'.ok
    /\ n(d) = 0 => attrs'[d] = attrs[d] /\ symbol_singleton'[d] = symbol_singleton[d]
    /\ n(d) > 0 =>
          /\ \A item \in items : HasSymbolAndArray(d, item, attrs'[d], symbol_singleton'[d])
          /\ \A item \in Range(decl[d].param_int_non_computational) :
                HasNeither(item, attrs'[d], symbol_singleton'[d])
    \* a second run right away changes nothing
    /\ init_data(d)'.attrs = attrs'[d]
    /\ init_data(d)'.symbol_singleton = symbol_singleton'[d]

\* C13 (as the code has it): _init_data returns without error and creates
\* nothing when the device has no element; otherwise every computational,
\* computed and custom parameter, every algebraic variable, every computed
\* variable and every state variable gets its singleton symbol and an array
\* of elementCount() placeholders, non-computational parameters and custom
\* variables get neither, and a second run changes nothing.
C13_InitDataDeclares ==
    [][\A d \in Devices :
          InitDataCall(d) =>
              /\ InitDataEstablishes(d, DeclaredQuantities(decl[d]))
              /\ n(d) > 0 => \A item \in CustomVariables(decl[d]) :
                                HasNeither(item, attrs'[d], symbol_singleton'[d])]_vars

\* C13 (as claimed): the same, with every custom variable also getting its
\* singleton symbol and its array of placeholders.
C13_CustomVariablesDeclared ==
    [][\A d \in Devices :
          InitDataCall(d) =>
              InitDataEstablishes(d, DeclaredQuantities(decl[d]) \cup CustomVariables(decl[d]))]_vars

\* _init_data has run on a device with elements that declares one quantity
\* of every kind, custom variable included.
C13_Witness ==
    /\ ret.ok /\ Op(ret) = "_init_data" /\ n("dev") = MaxN
    /\ decl["dev"].var_int_custom # <<>> /\ decl["dev"].param_int_custom # <<>>
    /\ decl["dev"].var_int_computed # <<>> /\ decl["dev"].state_int # <<>>
    /\ "delta" \in DOMAIN attrs["dev"] /\ len(attrs["dev"]["delta"]) = MaxN

(***************************************************************************)
(* Derived parameters on their own: a device with the computational        *)
(* parameters Sn, Vn and v and up to MaxDecl derived parameters, declared  *)
(* in any order; elements are created, _init_data and _compute_param_int   *)
(* are run, in any order and any number of times.                          *)
(***************************************************************************)
\* Derived-parameter declarations: q refers to the derived v0, w to the
\* derived q.
DerivedParameters == {<<"v0", "Sn + Vn">>, <<"q", "2*v0 + 1">>, <<"w", "v + q">>}

ParamIntComputed ==
    {s \in UNION {[1..m -> DerivedParameters] : m \in 0..MaxDecl} :
        \A i, j \in DOMAIN s : i # j => s[i] # s[j]}

InitParams ==
    \E pic \in ParamIntComputed :
        /\ decl = [d \in {"dev"} |->
                     [DeviceBase("Dev") EXCEPT !.param_int = @ \o <<"Sn", "Vn", "v">>,
                                               !.param_int_computed = pic]]
        /\ idx = [d \in {"dev"} |-> <<>>]
        /\ int = Blank({"dev"})
        /\ attrs = Blank({"dev"})
        /\ symbol_singleton = Blank({"dev"})
        /\ dae_address = Blank({"dev"})
        /\ gcall_int_symbolic_singleton = Blank({"dev"})
        /\ gcall_ext_symbolic_singleton = Blank({"dev"})
        /\ gcall_int_symbolic = Blank({"dev"})
        /\ gcall_ext_symbolic = Blank({"dev"})
        /\ dae = NoDae
        /\ ret = Return(None)
        /\ calls = [d \in {"dev"} |-> 0]

ComputeParamInt(d) ==
    \E rev \in BOOLEAN :
        LET r == compute_param_int(d, rev)
        IN  /\ attrs' = [attrs EXCEPT ![d] = r.attrs]
            /\ ret' = Call("_compute_param_int", d, r.ret)
            /\ UNCHANGED <<calls, decl, idx, int, symbol_singleton, dae_address,
                           gcall_int_symbolic_singleton, gcall_ext_symbolic_singleton,
                           gcall_int_symbolic, gcall_ext_symbolic, dae>>

NextParams ==
    \/ \E d \in Devices : CreateNDefaultElements(d)
    \/ \E d \in Devices : InitDataCall(d)
    \/ \E d \in Devices : ComputeParamInt(d)

SpecParams == InitParams /\ [][NextParams]_vars

\* What derived parameter k of d sees for the symbol s during a pass: the
\* value the pass stored, when s is a derived parameter declared before k,
\* and the value the device held before the pass otherwise.
SeenBy(d, k, s, after) ==
    IF \E j \in 1..k - 1 : decl[d].param_int_computed[j][1] = s
      THEN after[s] ELSE BagOf(d, attrs[d])[s]

\* _subs_all_vectorized on the equation of derived parameter k, over the
\* values it sees, the free symbols enumerated in one order or the other.
ExpectedParameter(d, k, after, rev) ==
    LET equation_singleton == sympify(decl[d].param_int_computed[k][2])
        syms == free_symbols(equation_singleton)
    IN  subs_all_vectorized([s \in syms |-> SeenBy(d, k, s, after)], equation_singleton,
                            OrderOf(syms, rev), "list")

\* C14: _compute_param_int is a single forward pass in declaration order:
\* the value stored for a derived parameter is the element-wise expansion of
\* its equation in which an earlier-declared derived parameter stands for
\* its freshly computed values and every other quantity, a later-declared
\* derived parameter included, for the value it had before the pass.
C14_SingleForwardPass ==
    [][\A d \in Devices :
          (ComputeParamInt(d) /\ ret'.ok) =>
              \A k \in DOMAIN decl[d].param_int_computed :
                  LET var == decl[d].param_int_computed[k][1]
                  IN  /\ var \in DOMAIN attrs'[d]
                      /\ \E rev \in BOOLEAN :
                            /\ ExpectedParameter(d, k, attrs'[d], rev).ok
                            /\ attrs'[d][var] = ExpectedParameter(d, k, attrs'[d], rev).val]_vars

\* A pass right after _init_data over <<q, v0>> and over <<v0, q>>: q is
\* declared before v0 and holds v0's placeholders, or after it and holds
\* v0's computed values.
C14_Witness ==
    /\ ret.ok /\ Op(ret) = "_compute_param_int" /\ n("dev") = MaxN
    /\ Keys(decl["dev"].param_int_computed) \in {<<"q", "v0">>, <<"v0", "q">>}
    /\ "q" \in DOMAIN attrs["dev"] /\ "v0" \in DOMAIN attrs["dev"]
    /\ len(attrs["dev"]["q"]) = MaxN
    /\ IF decl["dev"].param_int_computed[1][1] = "q"
         THEN free_symbols(Items(attrs["dev"]["q"])[1]) = {"Dev_v0_0"}
         ELSE free_symbols(Items(attrs["dev"]["q"])[1]) = {"Dev_Sn_0", "Dev_Vn_0"}

\* The forward case alone: q declared after v0 holds v0's computed values.
C14_WitnessForward ==
    /\ C14_Witness /\ decl["dev"].param_int_computed[1][1] = "v0"

\* The backward case alone: q declared before v0 holds v0's placeholders.
C14_WitnessBackward ==
    /\ C14_Witness /\ decl["dev"].param_int_computed[1][1] = "q"

(***************************************************************************)
(* Imports while the exporting device keeps computing: a bus device whose  *)
(* interface variable v may also be declared as a computed variable        *)
(* (v = v0), and a generator device importing a and v through its foreign  *)
(* key.  _init_data, get_var_address, get_algeb_ext and _compute_variable  *)
(* are called in any order.                                                *)
(***************************************************************************)
BusComputed ==
    [Bus EXCEPT !.param_int = @ \o <<"v0">>,
                !.var_int_computed = <<<<"v", ListDecl(<<"v0", "vectorized", "Array">>)>>>>]

InitShared ==
    \E nb \in 1..MaxBus : \E computed \in BOOLEAN :
    \E fk \in UNION {[1..m -> 0..nb - 1] : m \in 1..MaxPV} :
        LET D == {"bus", "pv"}
        IN  /\ decl = [d \in D |-> IF d = "pv" THEN PVDevice ELSE IF computed THEN BusComputed ELSE Bus]
            /\ idx = [d \in D |-> IF d = "bus" THEN BusIdx(nb) ELSE Range0(Len(fk))]
            /\ int = [d \in D |-> IF d = "bus" THEN [i \in Range(BusIdx(nb)) |-> nb - 1 - i]
                                  ELSE create_n_default_elements(Len(fk)).int]
            /\ attrs = [d \in D |->
                          IF d = "pv" THEN [p \in {"bus"} |-> List([k \in DOMAIN fk |-> Integer(fk[k])])]
                          ELSE Empty]
            /\ symbol_singleton = Blank(D)
            /\ dae_address = Blank(D)
            /\ gcall_int_symbolic_singleton = Blank(D)
            /\ gcall_ext_symbolic_singleton = Blank(D)
            /\ gcall_int_symbolic = Blank(D)
            /\ gcall_ext_symbolic = Blank(D)
            /\ dae = NoDae
            /\ ret = Return(None)
            /\ calls = [d \in D |-> 0]

NextShared ==
    \/ \E d \in Devices : InitData(d)
    \/ \E d \in Devices : GetVarAddress(d)
    \/ \E d \in Devices : GetAlgebExt(d)
    \/ \E d \in Devices : ComputeVariable(d)

SpecShared == InitShared /\ [][NextShared]_vars

\* Import k of d has been resolved.
Resolved(d, k) ==
    /\ decl[d].algeb_ext[k][1] \in DOMAIN attrs[d]
    /\ decl[d].algeb_ext[k][1] \in DOMAIN dae_address[d]

\* The imported entries of import k of d are the exporting device's current
\* entries at the resolved rows.
TracksTarget(d, k) ==
    LET dest == decl[d].algeb_ext[k][1]
        var == decl[d].algeb_ext[k][3]
        B == Target(d, k)
        keys == KeyValues(d, k)
    IN  /\ var \in DOMAIN attrs[B] /\ var \in DOMAIN dae_address[B]
        /\ \A i \in DOMAIN keys :
              /\ Items(attrs[d][dest])[i] = Items(attrs[B][var])[int[B][keys[i]] + 1]
              /\ dae_address[d][dest][i] = dae_address[B][var][int[B][keys[i]] + 1]

\* C15 (as claimed): imports are held by reference: in every state after
\* resolution the imported entry equals the exporting device's current entry
\* (symbol and address) at the resolved row.
C15_ImportTracksTarget ==
    \A d \in Devices : \A k \in KeyImports(d) : Resolved(d, k) => TracksTarget(d, k)

\* C15 (as the code has it): an import is a snapshot.  Once resolved, the
\* importing device's entries and addresses are changed by nothing another
\* device does, whatever that does to the exported variable.
C15_ImportIsSnapshot ==
    [][\A d \in Devices : \A k \in KeyImports(d) :
          (Resolved(d, k) /\ \E b \in Devices \ {d} :
                                \/ ComputeVariable(b) \/ InitData(b) \/ GetVarAddress(b))
              => /\ attrs'[d][decl[d].algeb_ext[k][1]] = attrs[d][decl[d].algeb_ext[k][1]]
                 /\ dae_address'[d][decl[d].algeb_ext[k][1]]
                       = dae_address[d][decl[d].algeb_ext[k][1]]]_vars

\* The generator resolved its import of v, then the bus recomputed v: the
\* generator still holds the placeholder the bus no longer has.
C15_Witness ==
    /\ Resolved("pv", 2) /\ Op(ret) = "_compute_variable" /\ ret.dev = "bus" /\ ret.ok
    /\ decl["bus"].var_int_computed # <<>>
    /\ Items(attrs["pv"]["v"])[1] = symbols("Bus_v_" \o ToString(int["bus"][KeyValues("pv", 2)[1]]))
    /\ Items(attrs["bus"]["v"])[int["bus"][KeyValues("pv", 2)[1]] + 1]
          = symbols("Bus_v0_" \o ToString(int["bus"][KeyValues("pv", 2)[1]]))

(***************************************************************************)
(* Materialization over changing inputs: a device with the parameters Sn,  *)
(* Vn and v, the derived parameter v0 = Sn + Vn, the algebraic variable q, *)
(* the internal equation q: v - v0 and the external equation a: -q.        *)
(* Elements are created, _init_data, _compute_param_int, the two           *)
(* make_gcall_*_symbolic, delayed_symbol_sub_all and delayed_symbol_sub    *)
(* itself are run in any order, the last two at most MaxCalls times        *)
(* together.                                                               *)
(***************************************************************************)
InitRemat ==
    /\ decl = [d \in {"dev"} |->
                 [DeviceBase("Dev") EXCEPT
                     !.param_int = @ \o <<"Sn", "Vn", "v">>,
                     !.param_int_computed = <<<<"v0", "Sn + Vn">>>>,
                     !.algeb_int = <<"q">>,
                     !.gcall_int = <<<<"q", "v - v0">>>>,
                     !.gcall_ext = <<<<"a", "-q">>>>]]
    /\ idx = [d \in {"dev"} |-> <<>>]
    /\ int = Blank({"dev"})
    /\ attrs = Blank({"dev"})
    /\ symbol_singleton = Blank({"dev"})
    /\ dae_address = Blank({"dev"})
    /\ gcall_int_symbolic_singleton = Blank({"dev"})
    /\ gcall_ext_symbolic_singleton = Blank({"dev"})
    /\ gcall_int_symbolic = Blank({"dev"})
    /\ gcall_ext_symbolic = Blank({"dev"})
    /\ dae = NoDae
    /\ ret = Return(None)
    /\ calls = [d \in {"dev"} |-> 0]

\* delayed_symbol_sub_all as called directly, the runs counted.
DelayedSymbolSubAllCall(d) ==
    /\ calls[d] < MaxCalls
    /\ \E rev \in BOOLEAN :
        LET r == delayed_symbol_sub_all(d, rev)
        IN  /\ gcall_ext_symbolic' = [gcall_ext_symbolic EXCEPT ![d] = r.ext]
            /\ gcall_int_symbolic' = [gcall_int_symbolic EXCEPT ![d] = r.int]
            /\ ret' = Call("delayed_symbol_sub_all", d, r.ret)
    /\ calls' = [calls EXCEPT ![d] = @ + 1]
    /\ UNCHANGED <<decl, idx, int, attrs, symbol_singleton, dae_address,
                   gcall_int_symbolic_singleton, gcall_ext_symbolic_singleton, dae>>

NextRemat ==
    \/ \E d \in Devices : CreateNDefaultElements(d)
    \/ \E d \in Devices : InitDataCall(d)
    \/ \E d \in Devices : ComputeParamInt(d)
    \/ \E d \in Devices : MakeGcallIntSymbolic(d)
    \/ \E d \in Devices : MakeGcallExtSymbolic(d)
    \/ \E d \in Devices : DelayedSymbolSubAllCall(d)
    \/ \E d \in Devices : DelayedSymbolSub(d)

SpecRemat == InitRemat /\ [][NextRemat]_vars

\* _subs_all_vectorized(sympify(eq), return_as=smp.Array) on the device's
\* current values, the free symbols enumerated in one order or the other.
ExpansionOf(d, eq, rev) ==
    subs_all_vectorized(Bag(d), sympify(eq), OrderOf(free_symbols(sympify(eq)), rev), "Array")

\* v is what the vectorized expansion of template eq returns now.
IsExpansionOf(d, eq, v) ==
    \E rev \in BOOLEAN : ExpansionOf(d, eq, rev).ok /\ ExpansionOf(d, eq, rev).val = v

\* Every entry of the dictionary `symbolic` is the expansion of its template
\* over the current values, and its keys are those of the declaration gcall.
FreshlyExpanded(d, gcall, symbolic) ==
    /\ DOMAIN symbolic = Range(Keys(gcall))
    /\ \A k \in DOMAIN gcall : IsExpansionOf(d, gcall[k][2], symbolic[gcall[k][1]])

\* An entry present before the run is kept as it was; an entry absent before
\* the run is the expansion of its template over the current values.
KeptOrExpanded(d, gcall, before, after) ==
    /\ DOMAIN after = DOMAIN before \cup Range(Keys(gcall))
    /\ \A var \in DOMAIN before : after[var] = before[var]
    /\ \A k \in DOMAIN gcall :
          gcall[k][1] \notin DOMAIN before => IsExpansionOf(d, gcall[k][2], after[gcall[k][1]])

\* C16 (as claimed): when delayed_symbol_sub_all is run again after the
\* inputs changed, every entry of _gcall_int_symbolic and _gcall_ext_symbolic
\* equals the vectorized expansion of its template over the new values, and
\* the key sets equal those of _gcall_int and _gcall_ext.
C16_Rematerialized ==
    [][\A d \in Devices :
          (DelayedSymbolSubAllCall(d) /\ ret'.ok /\ MadeSymbolic(d))
              => /\ FreshlyExpanded(d, decl[d].gcall_int, gcall_int_symbolic'[d])
                 /\ FreshlyExpanded(d, decl[d].gcall_ext, gcall_ext_symbolic'[d])]_vars

\* C16 (as the code has it): delayed_symbol_sub_all only fills in what is
\* missing: an equation already materialized is kept unchanged whatever has
\* happened to its inputs, an equation not yet materialized is expanded over
\* the current values; the key sets equal those of _gcall_int and _gcall_ext.
C16_OnlyMissingMaterialized ==
    [][\A d \in Devices :
          (DelayedSymbolSubAllCall(d) /\ ret'.ok /\ MadeSymbolic(d))
              => /\ KeptOrExpanded(d, decl[d].gcall_int, gcall_int_symbolic[d],
                                   gcall_int_symbolic'[d])
                 /\ KeptOrExpanded(d, decl[d].gcall_ext, gcall_ext_symbolic[d],
                                   gcall_ext_symbolic'[d])
                 /\ DOMAIN gcall_int_symbolic'[d] = Range(Keys(decl[d].gcall_int))
                 /\ DOMAIN gcall_ext_symbolic'[d] = Range(Keys(decl[d].gcall_ext))]_vars

\* delayed_symbol_sub_all has just run on equations already materialized, after _compute_param_int
\* gave v0 its values: the internal equation still holds v0's placeholder.
C16_Witness ==
    /\ Op(ret) = "delayed_symbol_sub_all" /\ ret.ok /\ calls["dev"] = 2 /\ MadeSymbolic("dev")
    /\ n("dev") > 0 /\ "v0" \in DOMAIN attrs["dev"] /\ attrs["dev"]["v0"].ctype = "list"
    /\ "q" \in DOMAIN gcall_int_symbolic["dev"]
    /\ "Dev_v0_0" \in free_symbols(Items(gcall_int_symbolic["dev"]["q"])[1])
    /\ ~IsExpansionOf("dev", "v - v0", gcall_int_symbolic["dev"]["q"])

==========================================================================
